---- MODULE Spec2Model ----
(***************************************************************************)
(* Model of spnpbot's sliding-window rate limiter and its middleware       *)
(* (app/rate_limit.py), of the token-refresh-and-retry decorator and of    *)
(* get_playback_data (app/user_service.py).                                *)
(*                                                                         *)
(* Time is an integer number of seconds.  The clock is read with           *)
(* time.time(); it never runs backwards and advances in steps of Step      *)
(* seconds.  check_rate_limit reads it twice, once itself and once in      *)
(* _cleanup_old_data; the second reading may be later than the first.      *)
(*                                                                         *)
(* SpecRL drives the limiter directly, SpecMW through the middleware with  *)
(* the limits of the policy table, SpecNotice the rate-limit notice alone, *)
(* SpecTR the decorator and the user table, SpecPB get_playback_data and   *)
(* its two tasks, SpecPR get_playback_data under the decorator, SpecLO     *)
(* logout_user, SpecDB get_session (app/db.py; FairSpecDB with the loop's  *)
(* fairness), SpecBot the inline-query and queue handlers (app/bot.py),    *)
(* whose clock advances by one second.  SpecTC is SpecPR with a logout     *)
(* that comes in between the first await and the refresh, SpecRF runs two  *)
(* refreshes side by side, SpecBL the /logout and inline-query handlers    *)
(* with the user table.                                                    *)
(***************************************************************************)
EXTENDS Integers, Sequences, FiniteSets, TLC

\* ------------------------------------------------------------ bounds ----
Step      == 15   \* granularity of the clock, seconds
MaxTime   == 75   \* the clock stops advancing here
MaxLimit  == 2    \* the limit every key is checked with is in 1..MaxLimit
MaxChecks == 4    \* number of check_rate_limit calls in one behaviour
MaxCalls  == 2    \* number of calls of a wrapped function in one behaviour
MaxLater  == 30   \* the clock of the token model stops advancing here
Resolution == 4   \* fractions of a second told apart in a retry_after
MaxRetries == 3   \* get_session is entered with max_retries in 0..MaxRetries
MaxSeconds == 4   \* the clock of the handlers, in seconds, stops here

\* ------------------------------------------- RateLimitConfig, RateLimiter
COMMAND_WINDOW   == 30
INLINE_WINDOW    == 10
CALLBACK_WINDOW  == 10
cleanup_interval == 60
CLEANUP_RETENTION == 30

\* user ids are opaque dictionary keys: two of them tell a key's own requests
\* from another user's
Users == {1, 2}
RequestTypes == {"command", "inline", "callback"}
\* the request types the limiter is called with directly; "callback" has the
\* window of "inline"
CheckedTypes == {"command", "inline"}
Keys == Users \X RequestTypes

\* the window the middleware pairs with each request type
WindowOf(request_type) ==
    CASE request_type = "command"  -> COMMAND_WINDOW
      [] request_type = "inline"   -> INLINE_WINDOW
      [] request_type = "callback" -> CALLBACK_WINDOW

VARIABLES
    clock,          \* what time.time() returns now
    requests,       \* RateLimiter._requests: a dict, key -> list of timestamps
    last_cleanup,   \* RateLimiter._last_cleanup
    limit,          \* the limit every check of this behaviour is made with
    log,            \* history: per key, every check made: its time and its answer
    nchecks,        \* history: number of check_rate_limit calls so far
    rl,             \* the last check_rate_limit call: arguments, state before, result
    store,          \* the user table: telegram_id -> row, or NoUser
    w,              \* the running call of a with_token_refresh wrapper
    ncalls,         \* history: number of wrapper calls so far
    client,         \* the kind of the rate-limited updates the bot is sent
    mw,             \* the last RateLimitMiddleware.__call__: event, what it did
    passed,         \* history: per key, the times inside the longest window
                    \* at which a check let an update of the key through
    notice,         \* one call of _handle_rate_limit_exceeded
    pb,             \* the running get_playback_data call and its two tasks
    gs,             \* one `async with get_session()` block
    lg,             \* the last logout_user call
    cache,          \* bot._inline_query_cache: user id -> entry
    hd,             \* the last call of a bot handler
    rf              \* the refresh_user_spotify_token calls running side by side

rlvars == <<requests, last_cleanup, limit, log, nchecks, rl>>
trvars == <<store, w, ncalls>>
mwvars == <<client, mw, passed, notice>>
pbvars == <<pb>>
svvars == <<gs, lg, cache, hd, rf>>
vars == <<clock, rlvars, trvars, mwvars, pbvars, svvars>>

\* ---------------------------------------------------------------- helpers
Max(a, b) == IF a >= b THEN a ELSE b

\* MinOf taking the newest timestamp
MinOf_Newest(s) == CHOOSE m \in {s[i] : i \in 1..Len(s)} :
                       \A i \in 1..Len(s) : m >= s[i]

\* min(list) of a non-empty list
MinOf(s) == CHOOSE m \in {s[i] : i \in 1..Len(s)} :
                \A i \in 1..Len(s) : m <= s[i]

\* Newer with `ts >= cutoff`
Newer_Inclusive(s, cutoff) == SelectSeq(s, LAMBDA ts : ts >= cutoff)

\* [ts for ts in s if ts > cutoff]
Newer(s, cutoff) == SelectSeq(s, LAMBDA ts : ts > cutoff)

\* self._requests[key] on a defaultdict(list): a missing key reads as []
Get(reqs, key) == IF key \in DOMAIN reqs THEN reqs[key] ELSE <<>>

\* Put under a key that is the user id alone: every request type of the user
\* shares one list
Put_PerUser(reqs, key, val) ==
    [k \in DOMAIN reqs \cup {kk \in Keys : kk[1] = key[1]} |->
        IF k[1] = key[1] THEN val ELSE reqs[k]]

\* dict assignment reqs[key] = val
Put(reqs, key, val) ==
    [k \in DOMAIN reqs \cup {key} |-> IF k = key THEN val ELSE reqs[k]]

\* CleanupOldData that leaves the keys whose lists it emptied
CleanupOldData_KeepsEmpty(reqs, lastc, now2) ==
    IF now2 - lastc < cleanup_interval
    THEN [requests |-> reqs, last_cleanup |-> lastc, ran |-> FALSE]
    ELSE LET cutoff == now2 - CLEANUP_RETENTION
         IN  [requests     |-> [k \in DOMAIN reqs |-> Newer(reqs[k], cutoff)],
              last_cleanup |-> now2,
              ran          |-> TRUE]

\* RateLimiter._cleanup_old_data, its clock read returning now2
CleanupOldData(reqs, lastc, now2) ==
    IF now2 - lastc < cleanup_interval
    THEN [requests |-> reqs, last_cleanup |-> lastc, ran |-> FALSE]
    ELSE LET cutoff == now2 - CLEANUP_RETENTION
             kept   == {k \in DOMAIN reqs : Newer(reqs[k], cutoff) # <<>>}
         IN  [requests     |-> [k \in kept |-> Newer(reqs[k], cutoff)],
              last_cleanup |-> now2,
              ran          |-> TRUE]

\* CheckRateLimit that records the attempt before it decides
CheckRateLimit_RecordsAll(reqs, lastc, user_id, request_type, lim, window, now, now2) ==
    LET key    == <<user_id, request_type>>
        c      == CleanupOldData(reqs, lastc, now2)
        cutoff == now - window
        recent_requests == Newer(Get(c.requests, key), cutoff)
    IN  IF Len(recent_requests) >= lim
        THEN [allowed      |-> FALSE,
              retry_after  |-> Max(0, MinOf(recent_requests) + window - now),
              requests     |-> Put(c.requests, key, Append(recent_requests, now)),
              last_cleanup |-> c.last_cleanup,
              cleaned      |-> c.ran]
        ELSE [allowed      |-> TRUE,
              retry_after  |-> 0,
              requests     |-> Put(c.requests, key, Append(recent_requests, now)),
              last_cleanup |-> c.last_cleanup,
              cleaned      |-> c.ran]

\* RateLimiter.check_rate_limit; now is its own clock read, now2 the later
\* clock read of the _cleanup_old_data call it makes
CheckRateLimit(reqs, lastc, user_id, request_type, lim, window, now, now2) ==
    LET key    == <<user_id, request_type>>
        c      == CleanupOldData(reqs, lastc, now2)
        cutoff == now - window
        recent_requests == Newer(Get(c.requests, key), cutoff)
    IN  IF Len(recent_requests) >= lim
        THEN LET oldest_in_window == MinOf(recent_requests)
                 retry_after      == oldest_in_window + window - now
             IN  [allowed      |-> FALSE,
                  retry_after  |-> Max(0, retry_after),
                  \* reading self._requests[key] created the key
                  requests     |-> Put(c.requests, key, Get(c.requests, key)),
                  last_cleanup |-> c.last_cleanup,
                  cleaned      |-> c.ran]
        ELSE [allowed      |-> TRUE,
              retry_after  |-> 0,
              requests     |-> Put(c.requests, key, Append(recent_requests, now)),
              last_cleanup |-> c.last_cleanup,
              cleaned      |-> c.ran]


\* ------------------------------------------------- user table, exceptions
\* session.get(User, id) of an id without a row
NoUser == [absent |-> TRUE]
\* None where an int is expected (user ids are not negative)
None == -1

TokenExpired        == "SpotifyTokenExpiredError"
TokenRevoked        == "SpotifyTokenRevokedError"
InvalidRefreshToken == "SpotifyInvalidRefreshTokenError"
UserNotLoggedIn     == "UserNotLoggedInError"
ApiError            == "SpotifyApiError"
TokenError          == "SpotifyTokenError"
AuthError           == "SpotifyAuthError"
OperationalError    == "OperationalError"
OtherError          == "Exception"

\* how an await ended: it returned v, or raised an exception of class e
Returns(v) == [kind |-> "return", value |-> v]
Raises(e)  == [kind |-> "raise", value |-> e]
\* no outcome yet
Pending == [kind |-> "pending", value |-> "None"]

\* what a function passed to with_token_refresh may do when awaited: return,
\* or raise any exception
AnyOutcome ==
    {Returns("True")} \cup
    {Raises(e) : e \in {TokenExpired, TokenRevoked, InvalidRefreshToken,
                        UserNotLoggedIn, ApiError, OperationalError,
                        OtherError}}

\* the access tokens the accounts service hands out, and the lifetime it
\* grants them, in seconds
AccessTokens == {"at1", "at2"}
expires_in == Step

\* SpotifyClient._check_token_expiration
TokenIsExpired(expires_at, now) == expires_at <= now

\* add_track_to_queue(user_id, track_id) without its decorator: the outcomes
\* it can have for the row it finds and the answer of the queue endpoint
AddTrackToQueue(row, now) ==
    {Raises(OperationalError)} \cup     \* get_session gave up
    IF row = NoUser
    THEN {Raises(UserNotLoggedIn)}
    ELSE IF TokenIsExpired(row.spotify_expires_at, now)
         THEN {Raises(TokenExpired)}
         ELSE {Raises(TokenExpired),   \* 401 with "expired" in the body
               Returns("True"),        \* 200 or 204
               Raises(ApiError)}       \* any other status

\* the outcomes of the wrapped function func for the argument user_id
FuncOutcomes(func, user_id, rows, now) ==
    IF func = "add_track_to_queue"
    THEN AddTrackToQueue(rows[user_id], now)
    ELSE AnyOutcome

\* what refresh_token(refresh_token) may do: return a RefreshTokenResponse or
\* raise one of the exceptions of app/spotify/auth.py
RefreshTokenOutcomes ==
    {Returns(t) : t \in AccessTokens} \cup
    {Raises(e) : e \in {InvalidRefreshToken, TokenRevoked, TokenError, AuthError}}

\* Python truth value of an int-or-None argument
Truthy(x) == x # None /\ x # 0

\* user_id = kwargs.get("user_id") or (args[0] if args else None)
ExtractUserId(args, kwargs) ==
    IF Truthy(kwargs) THEN kwargs
    ELSE IF args # <<>> THEN args[1] ELSE None

Idle == [pc |-> "idle"]

\* AfterFirstCall with `except SpotifyTokenError` in place of
\* `except SpotifyTokenExpiredError`
AfterFirstCall_AnyTokenError(o, args, kwargs) ==
    IF o.kind = "return"
    THEN [pc |-> "done", result |-> o]
    ELSE IF o.value \in {TokenExpired, TokenRevoked, InvalidRefreshToken}
         THEN [pc |-> "refresh", result |-> Pending]
         ELSE [pc |-> "done", result |-> o]

\* AfterFirstCall that takes UserNotLoggedInError for an expired token too
AfterFirstCall_RefreshesNotLoggedIn(o, args, kwargs) ==
    IF o.kind = "return"
    THEN [pc |-> "done", result |-> o]
    ELSE IF o.value \in {TokenExpired, UserNotLoggedIn}
         THEN [pc |-> "refresh", result |-> Pending]
         ELSE [pc |-> "done", result |-> o]

\* --------------------------------------------------- with_token_refresh
\* wrapper, after the first `await func(*args, **kwargs)` ended with outcome o
\* (user ids are ints: the isinstance check never raises)
AfterFirstCall(o, args, kwargs) ==
    IF o.kind = "return"
    THEN [pc |-> "done", result |-> o]
    ELSE IF o.value = TokenExpired
         THEN LET user_id == ExtractUserId(args, kwargs)
              IN  IF user_id = None
                  THEN [pc |-> "done", result |-> Raises("ValueError")]
                  ELSE [pc |-> "refresh", result |-> Pending]
         ELSE [pc |-> "done", result |-> o]

\* AfterRefresh without the retry: the wrapper returns None after the refresh
AfterRefresh_NoRetry(r) ==
    IF r.kind = "return"
    THEN [pc |-> "done", result |-> Returns("None")]
    ELSE [pc |-> "done", result |-> r]

\* AfterRefresh that gives up after the refresh instead of retrying
AfterRefresh_GivesUp(r) ==
    IF r.kind = "return"
    THEN [pc |-> "done", result |-> Raises(TokenExpired)]
    ELSE [pc |-> "done", result |-> r]

\* wrapper, after `await refresh_user_spotify_token(user_id)` ended with r
AfterRefresh(r) ==
    IF r.kind = "return"
    THEN [pc |-> "retry", result |-> Pending]
    ELSE [pc |-> "done", result |-> r]

\* AfterRetry with the retry wrapped in the same try block: a second
\* SpotifyTokenExpiredError starts another refresh
AfterRetry_Loop(o) ==
    IF o = Raises(TokenExpired)
    THEN [pc |-> "refresh", result |-> Pending]
    ELSE [pc |-> "done", result |-> o]

\* AfterRetry that reports a second SpotifyTokenExpiredError as a missing login
AfterRetry_Rewrapped(o) ==
    IF o = Raises(TokenExpired)
    THEN [pc |-> "done", result |-> Raises(UserNotLoggedIn)]
    ELSE [pc |-> "done", result |-> o]

\* wrapper, after the second `await func(*args, **kwargs)` ended with o
AfterRetry(o) == [pc |-> "done", result |-> o]

\* ClearedRow that forgets the refresh token
ClearedRow_AccessOnly(user, now) ==
    [user EXCEPT !.spotify_access_token = "",
                 !.spotify_expires_at = now]

\* ClearedRow that leaves spotify_expires_at as it was
ClearedRow_KeepsExpiry(user, now) ==
    [user EXCEPT !.spotify_access_token = "",
                 !.spotify_refresh_token = ""]

\* refresh_user_spotify_token: the row written when refresh_token raised
\* SpotifyInvalidRefreshTokenError or SpotifyTokenRevokedError
ClearedRow(user, now) ==
    [user EXCEPT !.spotify_access_token = "",
                 !.spotify_refresh_token = "",
                 !.spotify_expires_at = now]

\* RefreshedRow that keeps the old expiry
RefreshedRow_TokenOnly(user, access_token, now) ==
    [user EXCEPT !.spotify_access_token = access_token]

\* refresh_user_spotify_token: the row written when refresh_token returned
RefreshedRow(user, access_token, now) ==
    [user EXCEPT !.spotify_access_token = access_token,
                 !.spotify_expires_at = now + expires_in]

\* ------------------------------------------------------------------ Init
NoCall == [called |-> FALSE]

\* the handlers that may be inside refresh_user_spotify_token at a time
Refreshers == {1, 2}

\* no session is open, nobody has logged out, the inline cache is empty and no
\* handler has run
ServicesInit ==
    /\ gs = Idle
    /\ lg = NoCall
    /\ cache = << >>
    /\ hd = NoCall
    /\ rf = [p \in Refreshers |-> Idle]

\* no update has gone through the middleware
MiddlewareInit ==
    /\ client = "Message"
    /\ mw = NoCall
    /\ passed = [k \in Keys |-> <<>>]
    /\ notice = NoCall
    /\ pb = Idle
    /\ ServicesInit

\* RateLimiter.__init__ at time 0, no check made yet
LimiterInit ==
    /\ requests = << >>
    /\ last_cleanup = 0
    /\ log = [k \in Keys |-> <<>>]
    /\ nchecks = 0
    /\ rl = NoCall

RLInit ==
    /\ clock = 0
    /\ LimiterInit
    /\ limit \in 1..MaxLimit
    /\ store = [u \in Users |-> NoUser]
    /\ w = Idle
    /\ ncalls = 0
    /\ MiddlewareInit

\* --------------------------------------------------------------- actions
\* time passes between two calls
Tick ==
    /\ clock + Step <= MaxTime
    /\ clock' = clock + Step
    /\ UNCHANGED <<rlvars, trvars, mwvars, pbvars, svvars>>

\* one call check_rate_limit(user_id, request_type, limit, window).  The call
\* reads the clock twice (rate_limit.py:76 and :46); skew is the time that
\* passes between the two reads.
Check(user_id, request_type, skew) ==
    /\ nchecks < MaxChecks
    /\ clock + skew <= MaxTime
    /\ LET key    == <<user_id, request_type>>
           window == WindowOf(request_type)
           now    == clock
           now2   == clock + skew
           r == CheckRateLimit(requests, last_cleanup, user_id, request_type,
                               limit, window, now, now2)
       IN  /\ requests' = r.requests
           /\ last_cleanup' = r.last_cleanup
           /\ clock' = now2
           /\ log' = [log EXCEPT ![key] =
                              Append(@, [now         |-> now,
                                         allowed     |-> r.allowed,
                                         retry_after |-> r.retry_after])]
           /\ nchecks' = nchecks + 1
           /\ rl' = [called      |-> TRUE,
                     key         |-> key,
                     limit       |-> limit,
                     window      |-> window,
                     now         |-> now,
                     returned_at |-> now2,
                     before      |-> requests,
                     history     |-> log[key],
                     cleaned     |-> r.cleaned,
                     allowed     |-> r.allowed,
                     retry_after |-> r.retry_after]
    /\ UNCHANGED <<limit, trvars, mwvars, pbvars, svvars>>

CheckNow == \E u \in Users, t \in CheckedTypes : Check(u, t, 0)

CheckSlow == \E u \in Users, t \in CheckedTypes : Check(u, t, Step)

RLNext == Tick \/ CheckNow \/ CheckSlow

SpecRL == RLInit /\ [][RLNext]_vars

\* ------------------------------------------------------------------------
\* The token model: the user table, with_token_refresh and the functions it
\* wraps.  One wrapper call runs at a time; logins, logouts and the passing of
\* time happen between the calls.
\* ------------------------------------------------------------------------
TRInit ==
    /\ clock = 0
    /\ LimiterInit
    /\ limit = 1
    /\ store = [u \in Users |-> NoUser]
    /\ w = Idle
    /\ ncalls = 0
    /\ MiddlewareInit

\* a caller awaits the decorated function for user u, passing the user id
\* positionally or as the keyword user_id
Invoke(func, u, form) ==
    /\ w.pc = "idle"
    /\ ncalls < MaxCalls
    /\ ncalls' = ncalls + 1
    /\ w' = [pc         |-> "call",
             func       |-> func,
             user       |-> u,
             args       |-> IF form = "args" THEN <<u>> ELSE <<>>,
             kwargs     |-> IF form = "kwargs" THEN u ELSE None,
             calls      |-> <<>>,     \* outcomes of the awaits of func
             refreshes  |-> <<>>,     \* arguments of refresh_user_spotify_token
             refreshed  |-> Pending,     \* outcome of refresh_user_spotify_token
             response   |-> Pending,     \* outcome of refresh_token
             attempts   |-> <<>>,     \* the starts of get_playback_data's body
             fetched    |-> 0,        \* calls of refresh_token
             commits    |-> 0,        \* session.commit() calls
             loaded     |-> NoUser,     \* the row refresh_user_spotify_token got
             before     |-> store,    \* the user table when the call began
             result     |-> Pending]
    /\ UNCHANGED <<clock, store, rlvars, mwvars, pbvars, svvars>>

Call == \E func \in {"func", "add_track_to_queue"}, u \in Users,
           form \in {"args", "kwargs"} : Invoke(func, u, form)

\* wrapper: try: return await func(*args, **kwargs)
FirstCall ==
    /\ w.pc = "call"
    /\ \E o \in FuncOutcomes(w.func, w.user, store, clock) :
          LET n == AfterFirstCall(o, w.args, w.kwargs)
          IN  w' = [w EXCEPT !.calls = Append(@, o),
                             !.pc = n.pc,
                             !.result = n.result]
    /\ UNCHANGED <<clock, store, ncalls, rlvars, mwvars, pbvars, svvars>>

\* refresh_user_spotify_token: get_session() yields a session or gives up with
\* OperationalError; user = await session.get(User, telegram_id); no row:
\* return
RefreshLoad ==
    /\ w.pc = "refresh"
    /\ \E session \in {"session", OperationalError} :
          LET user_id == ExtractUserId(w.args, w.kwargs)
              user    == store[user_id]
              out     == IF session = OperationalError
                         THEN Raises(OperationalError)
                         ELSE Returns("None")
              n       == AfterRefresh(out)
          IN  IF session = "session" /\ user # NoUser
              THEN w' = [w EXCEPT !.refreshes = Append(@, user_id),
                                  !.loaded = user,
                                  !.pc = "refresh_token"]
              ELSE w' = [w EXCEPT !.refreshes = Append(@, user_id),
                                  !.refreshed = out,
                                  !.pc = n.pc,
                                  !.result = n.result]
    /\ UNCHANGED <<clock, store, ncalls, rlvars, mwvars, pbvars, svvars>>

\* Clears with a handler for every exception of refresh_token
Clears_AnyError(r) == r.kind = "raise"

\* refresh_user_spotify_token: does the outcome r of refresh_token enter
\* `except (SpotifyInvalidRefreshTokenError, SpotifyTokenRevokedError)`
Clears(r) ==
    r.kind = "raise" /\ r.value \in {InvalidRefreshToken, TokenRevoked}

\* refresh_user_spotify_token: response = await refresh_token(...), then the
\* commit of the refreshed or of the cleared row
RefreshToken ==
    /\ w.pc = "refresh_token"
    /\ \E r \in RefreshTokenOutcomes :
          LET user_id == w.refreshes[Len(w.refreshes)]
              clears  == Clears(r)
              out     == IF r.kind = "return" THEN Returns("None") ELSE r
              n       == AfterRefresh(out)
          IN  /\ store' =
                    IF r.kind = "return"
                    THEN [store EXCEPT ![user_id] =
                             RefreshedRow(w.loaded, r.value, clock)]
                    ELSE IF clears
                         THEN [store EXCEPT ![user_id] =
                                  ClearedRow(w.loaded, clock)]
                         ELSE store
              /\ w' = [w EXCEPT !.fetched = @ + 1,
                                !.commits = IF r.kind = "return" \/ clears
                                            THEN @ + 1 ELSE @,
                                !.refreshed = out,
                                !.response = r,
                                !.pc = n.pc,
                                !.result = n.result]
    /\ UNCHANGED <<clock, ncalls, rlvars, mwvars, pbvars, svvars>>

\* wrapper: return await func(*args, **kwargs), the retry
Retry ==
    /\ w.pc = "retry"
    /\ \E o \in FuncOutcomes(w.func, w.user, store, clock) :
          LET n == AfterRetry(o)
          IN  w' = [w EXCEPT !.calls = Append(@, o),
                             !.pc = n.pc,
                             !.result = n.result]
    /\ UNCHANGED <<clock, store, ncalls, rlvars, mwvars, pbvars, svvars>>

\* the caller has the outcome
Finish ==
    /\ w.pc = "done"
    /\ w' = Idle
    /\ UNCHANGED <<clock, store, ncalls, rlvars, mwvars, pbvars, svvars>>

\* spotify_auth_callback: the row of a user who logged in is merged
Login ==
    /\ w.pc = "idle"
    /\ \E u \in Users, t \in AccessTokens :
          store' = [store EXCEPT ![u] =
                       [spotify_access_token  |-> t,
                        spotify_refresh_token |-> "rt",
                        spotify_expires_at    |-> clock + expires_in]]
    /\ UNCHANGED <<clock, w, ncalls, rlvars, mwvars, pbvars, svvars>>

\* logout_user: the row is deleted if there is one
Logout ==
    /\ w.pc = "idle"
    /\ \E u \in Users :
          /\ store[u] # NoUser
          /\ store' = [store EXCEPT ![u] = NoUser]
    /\ UNCHANGED <<clock, w, ncalls, rlvars, mwvars, pbvars, svvars>>

\* time passes between two calls
Later ==
    /\ w.pc = "idle"
    /\ clock + Step <= MaxLater
    /\ clock' = clock + Step
    /\ UNCHANGED <<store, w, ncalls, rlvars, mwvars, pbvars, svvars>>

TRNext ==
    \/ Call \/ FirstCall \/ RefreshLoad \/ RefreshToken \/ Retry \/ Finish
    \/ Login \/ Logout \/ Later

SpecTR == TRInit /\ [][TRNext]_vars

\* ------------------------------------------- properties: with_token_refresh
Done == w.pc = "done"

\* the first await of the wrapped function raised SpotifyTokenExpiredError
\* and the refresh procedure returned
RefreshedAfterExpiry ==
    /\ Done
    /\ w.calls[1] = Raises(TokenExpired)
    /\ w.refreshed.kind = "return"

\* C2: a wrapped function that raises SpotifyTokenExpiredError once and
\* succeeds when awaited again: the wrapper returns that success, the refresh
\* procedure was called exactly once, with the caller's user id, and the
\* function was awaited exactly twice.
C2_RetrySucceeds ==
    (RefreshedAfterExpiry /\ (Len(w.calls) >= 2 => w.calls[2].kind = "return"))
        => /\ Len(w.calls) = 2
           /\ w.result = w.calls[2]
           /\ w.result.kind = "return"
           /\ w.refreshes = <<w.user>>

C2_Witness ==
    /\ Done
    /\ w.calls = <<Raises(TokenExpired), Returns("True")>>
    /\ w.result = Returns("True")
    /\ w.commits = 1

\* C3: a wrapped function that raises again when awaited after the refresh:
\* one refresh, one retry, and the second failure, whatever it is, is what
\* the caller gets; no second refresh, no third await.
C3_SecondFailurePropagates ==
    (RefreshedAfterExpiry /\ (Len(w.calls) >= 2 => w.calls[2].kind = "raise"))
        => /\ Len(w.calls) = 2
           /\ w.result = w.calls[2]
           /\ Len(w.refreshes) = 1
           /\ w.fetched <= 1

C3_Witness ==
    /\ Done
    /\ w.calls = <<Raises(TokenExpired), Raises(TokenExpired)>>
    /\ w.result = Raises(TokenExpired)
    /\ w.fetched = 1

\* C4: the function raised SpotifyTokenExpiredError and the refresh raised
\* SpotifyTokenRevokedError or SpotifyInvalidRefreshTokenError: the wrapper
\* raises that exception, does not await the function again, and the row of
\* the user holds an empty access token and an empty refresh token.
C4_RefreshFailureClears ==
    (/\ Done
     /\ w.calls[1] = Raises(TokenExpired)
     /\ w.refreshed \in {Raises(TokenRevoked), Raises(InvalidRefreshToken)})
        => /\ w.result = w.refreshed
           /\ Len(w.calls) = 1
           /\ store[w.user] # NoUser
           /\ store[w.user].spotify_access_token = ""
           /\ store[w.user].spotify_refresh_token = ""

C4_Witness ==
    /\ Done
    /\ w.calls = <<Raises(TokenExpired)>>
    /\ w.refreshed = Raises(TokenRevoked)
    /\ w.before[w.user] # NoUser
    /\ w.before[w.user].spotify_access_token # ""
    /\ w.before[w.user].spotify_refresh_token # ""

\* C5: the first await raised something other than SpotifyTokenExpiredError:
\* the wrapper raises it at once; no refresh, no write to the user table, no
\* second await.
C5_OtherFailurePropagates ==
    (/\ Done
     /\ w.calls[1].kind = "raise"
     /\ w.calls[1] # Raises(TokenExpired))
        => /\ w.result = w.calls[1]
           /\ Len(w.calls) = 1
           /\ w.refreshes = <<>>
           /\ w.fetched = 0
           /\ w.commits = 0
           /\ store = w.before

C5_Witness ==
    /\ Done
    /\ w.calls = <<Raises(InvalidRefreshToken)>>
    /\ w.result = Raises(InvalidRefreshToken)
    /\ store[w.user] # NoUser
    /\ store[w.user].spotify_refresh_token # ""

\* C6: in one call of the wrapper the refresh procedure runs at most once
\* (one call, one request to the accounts service, one commit) and the wrapped
\* function is awaited at most twice.
C6_AtMostOneRefreshTwoCalls ==
    w.pc # "idle" =>
        /\ Len(w.refreshes) <= 1
        /\ w.fetched <= 1
        /\ w.commits <= 1
        /\ Len(w.calls) <= 2

C6_Witness ==
    /\ Done
    /\ Len(w.calls) = 2
    /\ Len(w.refreshes) = 1
    /\ w.commits = 1

\* ------------------------------------------------ properties: rate limiter
\* the times of the accepted checks of a key's history, oldest first
AcceptedTimes(h) ==
    LET acc == SelectSeq(h, LAMBDA e : e.allowed)
    IN  [i \in 1..Len(acc) |-> acc[i].now]

\* of a call's key: the accepted checks that lie inside the window of the call
AcceptedInWindow == Newer(AcceptedTimes(rl.history), rl.now - rl.window)

\* C1: once `limit` checks of a key have been accepted within one window, the
\* next check of that key inside that window is rejected with retry_after > 0.
C1_LimitThenReject ==
    (rl.called /\ Len(AcceptedInWindow) >= rl.limit)
        => (~rl.allowed /\ rl.retry_after > 0)

\* C7: a key with at least `limit` accepted checks is accepted again as soon
\* as `window` has elapsed since the earliest of its last `limit` accepted
\* checks; a timestamp exactly `window` old no longer counts.
C7_AcceptedAfterWindow ==
    rl.called =>
        LET acc == AcceptedTimes(rl.history)
        IN  (/\ Len(acc) >= rl.limit
             /\ acc[Len(acc) - rl.limit + 1] + rl.window <= rl.now)
                => (rl.allowed /\ rl.retry_after = 0)

\* the budget was exhausted (a check was rejected), the earliest accepted
\* timestamp is exactly `window` old, and the check is accepted
C7_Witness ==
    /\ rl.called
    /\ rl.allowed
    /\ rl.limit >= 2
    /\ LET acc == AcceptedTimes(rl.history)
       IN  /\ Len(acc) >= rl.limit
           /\ acc[Len(acc) - rl.limit + 1] + rl.window = rl.now
           /\ Len(rl.history) > 0
           /\ ~rl.history[Len(rl.history)].allowed

\* recorded timestamps of every key but the one checked are what they were
OtherKeysUnchanged ==
    \A k \in Keys \ {rl.key} :
        /\ (k \in DOMAIN requests) = (k \in DOMAIN rl.before)
        /\ Get(requests, k) = Get(rl.before, k)

\* C8 as stated: a check leaves the recorded timestamps of every other key
\* unchanged.
C8_OtherKeysUntouched == rl.called => OtherKeysUnchanged

\* C8 amended: a check adds no timestamp to another key's sequence and removes
\* from it only timestamps that are 30 s old or older when the check returns;
\* and a check is rejected only when the sequence recorded for its own key
\* holds `limit` timestamps inside the window.
C8_KeysIndependent ==
    rl.called =>
        /\ \A k \in Keys \ {rl.key} :
              /\ Len(Get(requests, k)) <= Len(Get(rl.before, k))
              /\ Newer(Get(requests, k), rl.returned_at - CLEANUP_RETENTION)
                    = Newer(Get(rl.before, k), rl.returned_at - CLEANUP_RETENTION)
        /\ ~rl.allowed =>
              Len(Newer(Get(rl.before, rl.key), rl.now - rl.window)) >= rl.limit

\* one key is exhausted (its check was rejected at this time) and the check of
\* another key, which has recent timestamps of its own, is accepted
C8_Witness ==
    /\ rl.called
    /\ rl.allowed
    /\ \E k \in Keys \ {rl.key} :
          /\ Len(log[k]) > 0
          /\ ~log[k][Len(log[k])].allowed
          /\ log[k][Len(log[k])].now = rl.now
          /\ Get(requests, k) # <<>>
    /\ \E k \in Keys \ {rl.key} : k[1] # rl.key[1] /\ Get(requests, k) # <<>>
    /\ \E k \in Keys \ {rl.key} : k[1] = rl.key[1] /\ Get(requests, k) # <<>>

\* C9: a rejected check records nothing: the sequence of the key holds the
\* same in-window timestamps before and after the call, and no more entries.
C9_RejectRecordsNothing ==
    (rl.called /\ ~rl.allowed) =>
        /\ Newer(Get(requests, rl.key), rl.now - rl.window)
              = Newer(Get(rl.before, rl.key), rl.now - rl.window)
        /\ Len(Get(requests, rl.key)) <= Len(Get(rl.before, rl.key))

\* a rejected check whose key holds a timestamp equal to the time of the check
C9_Witness ==
    /\ rl.called
    /\ ~rl.allowed
    /\ \E i \in 1..Len(Get(requests, rl.key)) : requests[rl.key][i] = rl.now

\* C10: an accepted check returns (True, 0); a rejected one returns (False, r)
\* with r = earliest in-window timestamp + window - now and 0 <= r <= window;
\* the first check ever made for a key is accepted.
C10_ReturnValue ==
    rl.called =>
        /\ rl.allowed => rl.retry_after = 0
        /\ ~rl.allowed =>
              LET recent == Newer(Get(rl.before, rl.key), rl.now - rl.window)
              IN  /\ recent # <<>>
                  /\ \E i \in 1..Len(recent) :
                        /\ \A j \in 1..Len(recent) : recent[i] <= recent[j]
                        /\ rl.retry_after = recent[i] + rl.window - rl.now
                  /\ rl.retry_after >= 0
                  /\ rl.retry_after <= rl.window
        /\ rl.history = <<>> => rl.allowed

\* a rejected check whose in-window timestamps are not all the same, answered
\* with a retry_after shorter than the window
C10_Witness ==
    /\ rl.called
    /\ ~rl.allowed
    /\ rl.retry_after < rl.window
    /\ LET recent == Newer(Get(rl.before, rl.key), rl.now - rl.window)
       IN  \E i, j \in 1..Len(recent) : recent[i] # recent[j]

\* the timestamps a limiter that never runs the bulk cleanup holds for a key
\* after the checks of the history h, each made with limit lim and the window
\* given: check_rate_limit without its call of _cleanup_old_data
RECURSIVE NeverCleaned(_, _, _)
NeverCleaned(h, lim, window) ==
    IF h = <<>>
    THEN <<>>
    ELSE LET held   == NeverCleaned(SubSeq(h, 1, Len(h) - 1), lim, window)
             now    == h[Len(h)].now
             recent == Newer(held, now - window)
         IN  IF Len(recent) >= lim THEN held ELSE Append(recent, now)

\* C11: bulk cleanup does not affect the decision: every check returns the
\* allowed flag and the retry_after that a limiter which never runs the bulk
\* cleanup returns for the same sequence of checks.
C11_CleanupInvisible ==
    rl.called =>
        LET held   == NeverCleaned(rl.history, rl.limit, rl.window)
            recent == Newer(held, rl.now - rl.window)
        IN  IF Len(recent) >= rl.limit
            THEN /\ ~rl.allowed
                 /\ rl.retry_after = Max(0, MinOf(recent) + rl.window - rl.now)
            ELSE /\ rl.allowed
                 /\ rl.retry_after = 0

\* ------------------------------------------------------------------------
\* RateLimitMiddleware: every update passes through __call__, which consults
\* its own RateLimiter with the limit and window of the update's class.
\* ------------------------------------------------------------------------
COMMAND_LIMIT  == 30
INLINE_LIMIT   == 20
CALLBACK_LIMIT == 5

\* the classes of aiogram events: the three the middleware matches and one
\* that it does not (a poll, a chat member update, ...)
EventKinds == {"Message", "InlineQuery", "CallbackQuery", "Other"}

\* event.from_user of the events sent: a user, or None; an InlineQuery always
\* carries its user
Senders(kind) == IF kind = "InlineQuery" THEN {1} ELSE {1, None}

Event(kind, from_user) == [kind |-> kind, from_user |-> from_user]

\* Classify whose match falls through to the command class: an event of any
\* other kind is checked as a command
Classify_OtherAsCommand(event) ==
    CASE event.kind = "InlineQuery" ->
            [check        |-> TRUE,
             user_id      |-> event.from_user,
             request_type |-> "inline",
             limit        |-> INLINE_LIMIT,
             window       |-> INLINE_WINDOW]
      [] event.kind = "CallbackQuery" ->
            [check        |-> event.from_user # None,
             user_id      |-> event.from_user,
             request_type |-> "callback",
             limit        |-> CALLBACK_LIMIT,
             window       |-> CALLBACK_WINDOW]
      [] OTHER ->
            [check        |-> event.from_user # None,
             user_id      |-> event.from_user,
             request_type |-> "command",
             limit        |-> COMMAND_LIMIT,
             window       |-> COMMAND_WINDOW]

\* RateLimitMiddleware.__call__: the match statement and the user_id test.
\* check tells whether the limiter is consulted.
Classify(event) ==
    CASE event.kind = "Message" ->
            [check        |-> event.from_user # None,
             user_id      |-> event.from_user,
             request_type |-> "command",
             limit        |-> COMMAND_LIMIT,
             window       |-> COMMAND_WINDOW]
      [] event.kind = "InlineQuery" ->
            [check        |-> TRUE,
             user_id      |-> event.from_user,
             request_type |-> "inline",
             limit        |-> INLINE_LIMIT,
             window       |-> INLINE_WINDOW]
      [] event.kind = "CallbackQuery" ->
            [check        |-> event.from_user # None,
             user_id      |-> event.from_user,
             request_type |-> "callback",
             limit        |-> CALLBACK_LIMIT,
             window       |-> CALLBACK_WINDOW]
      [] OTHER ->
            [check        |-> FALSE,
             user_id      |-> None,
             request_type |-> "None",
             limit        |-> 0,
             window       |-> 0]

\* int(x) of the float x = n / unit, n an integer: truncation toward zero
IntOf(n, unit) == IF n >= 0 THEN n \div unit ELSE -((-n) \div unit)

\* RetrySeconds without the added second
RetrySeconds_Truncated(retry_after, unit) == IntOf(retry_after, unit)

\* retry_seconds = int(retry_after) + 1, retry_after given in 1/unit seconds
RetrySeconds(retry_after, unit) == IntOf(retry_after, unit) + 1

\* an f-string with {retry_seconds} in it
Text(before, retry_seconds, after) ==
    [before |-> before, retry_seconds |-> retry_seconds, after |-> after]

\* HandleRateLimitExceeded that answers every event as it answers a message
HandleRateLimitExceeded_PlainReply(event, retry_after, unit) ==
    <<[answers |-> "Message",
       text    |-> Text("You're sending commands too quickly. Please wait ",
                        RetrySeconds(retry_after, unit),
                        " seconds and try again.")]>>

\* RateLimitMiddleware._handle_rate_limit_exceeded: the calls of event.answer
\* it makes
HandleRateLimitExceeded(event, retry_after, unit) ==
    LET retry_seconds == RetrySeconds(retry_after, unit)
    IN  CASE event.kind = "InlineQuery" ->
                <<[answers             |-> "InlineQuery",
                   results             |-> <<>>,
                   cache_time          |-> 1,
                   switch_pm_text      |-> Text("Too many requests, wait ",
                                                retry_seconds, "s"),
                   switch_pm_parameter |-> "rate_limit"]>>
          [] event.kind = "CallbackQuery" ->
                <<[answers    |-> "CallbackQuery",
                   text       |-> Text("Please slow down. Try again in ",
                                       retry_seconds, " seconds."),
                   show_alert |-> TRUE]>>
          [] event.kind = "Message" ->
                <<[answers |-> "Message",
                   text    |-> Text("You're sending commands too quickly. Please wait ",
                                    retry_seconds, " seconds and try again.")]>>
          [] OTHER -> <<>>

\* Middleware that sends the notice and then goes on to the handler
Middleware_NoticeThenHandle(reqs, lastc, event, now, now2) ==
    LET c == Classify(event)
    IN  IF ~c.check
        THEN [checked |-> FALSE, allowed |-> TRUE, retry_after |-> 0,
              requests |-> reqs, last_cleanup |-> lastc,
              handled |-> 1, notices |-> <<>>]
        ELSE LET r == CheckRateLimit(reqs, lastc, c.user_id, c.request_type,
                                     c.limit, c.window, now, now2)
             IN  [checked |-> TRUE, allowed |-> r.allowed,
                  retry_after |-> r.retry_after,
                  requests |-> r.requests, last_cleanup |-> r.last_cleanup,
                  handled |-> 1,
                  notices |-> IF r.allowed THEN <<>>
                              ELSE HandleRateLimitExceeded(event, r.retry_after, 1)]

\* RateLimitMiddleware.__call__(handler, event, data) on the limiter state
\* (reqs, lastc): the new limiter state, the number of times the handler was
\* awaited and the notices sent
Middleware(reqs, lastc, event, now, now2) ==
    LET c == Classify(event)
    IN  IF ~c.check
        THEN [checked |-> FALSE, allowed |-> TRUE, retry_after |-> 0,
              requests |-> reqs, last_cleanup |-> lastc,
              handled |-> 1, notices |-> <<>>]
        ELSE LET r == CheckRateLimit(reqs, lastc, c.user_id, c.request_type,
                                     c.limit, c.window, now, now2)
             IN  IF ~r.allowed
                 THEN [checked |-> TRUE, allowed |-> FALSE,
                       retry_after |-> r.retry_after,
                       requests |-> r.requests, last_cleanup |-> r.last_cleanup,
                       handled |-> 0,
                       notices |-> HandleRateLimitExceeded(event, r.retry_after, 1)]
                 ELSE [checked |-> TRUE, allowed |-> TRUE,
                       retry_after |-> r.retry_after,
                       requests |-> r.requests, last_cleanup |-> r.last_cleanup,
                       handled |-> 1, notices |-> <<>>]

\* the longest window of the policy table
LongestWindow == Max(COMMAND_WINDOW, Max(INLINE_WINDOW, CALLBACK_WINDOW))

\* the bot is sent rate-limited updates of one kind (keys do not interfere in
\* the decision), besides updates the middleware lets through unchecked
MWInit ==
    /\ clock = 0
    /\ LimiterInit
    /\ limit = 1
    /\ store = [u \in Users |-> NoUser]
    /\ w = Idle
    /\ ncalls = 0
    /\ client \in EventKinds \ {"Other"}
    /\ mw = NoCall
    /\ passed = [k \in Keys |-> <<>>]
    /\ notice = NoCall
    /\ pb = Idle
    /\ ServicesInit

\* one update goes through the middleware; skew is the time between the two
\* clock reads of the limiter's check
Update(event, skew) ==
    /\ clock + skew <= MaxTime
    /\ LET c    == Classify(event)
           key  == <<c.user_id, c.request_type>>
           now  == clock
           now2 == clock + skew
           r    == Middleware(requests, last_cleanup, event, now, now2)
           earlier == IF c.check
                      THEN Newer(passed[key], now - LongestWindow)
                      ELSE <<>>
       IN  /\ requests' = r.requests
           /\ last_cleanup' = r.last_cleanup
           /\ clock' = IF r.checked THEN now2 ELSE clock
           /\ passed' = IF c.check
                        THEN [passed EXCEPT ![key] =
                                 IF r.allowed THEN Append(earlier, now)
                                 ELSE earlier]
                        ELSE passed
           /\ mw' = [called       |-> TRUE,
                     event        |-> event,
                     checked      |-> r.checked,
                     allowed      |-> r.allowed,
                     retry_after  |-> r.retry_after,
                     handled      |-> r.handled,
                     notices      |-> r.notices,
                     now          |-> now,
                     earlier      |-> earlier,
                     before       |-> [requests |-> requests,
                                       last_cleanup |-> last_cleanup]]
    /\ UNCHANGED <<client, notice, limit, log, nchecks, rl, trvars, pbvars, svvars>>

\* an update of the client's kind, or of a kind the middleware does not match
UpdateNow ==
    \E kind \in {client, "Other"} : \E u \in Senders(kind) :
        Update(Event(kind, u), 0)

\* the same, the cleanup pass of the check reading the clock later
UpdateSlow ==
    \E u \in Senders(client) \ {None} : Update(Event(client, u), Step)

MWNext == Tick \/ UpdateNow \/ UpdateSlow

SpecMW == MWInit /\ [][MWNext]_vars

\* ------------------------------------------------------------------------
\* _handle_rate_limit_exceeded on its own: the limiter returns a float
\* retry_after in [0, window]; here it is a multiple of 1/Resolution s.
\* ------------------------------------------------------------------------
NoticeInit ==
    /\ clock = 0
    /\ LimiterInit
    /\ limit = 1
    /\ store = [u \in Users |-> NoUser]
    /\ w = Idle
    /\ ncalls = 0
    /\ client = "Message"
    /\ mw = NoCall
    /\ passed = [k \in Keys |-> <<>>]
    /\ \E kind \in EventKinds \ {"Other"} :
       \E retry_after \in 0..(Classify(Event(kind, 1)).window * Resolution) :
          notice = [called      |-> FALSE,
                    event       |-> Event(kind, 1),
                    retry_after |-> retry_after]
    /\ pb = Idle
    /\ ServicesInit

\* await self._handle_rate_limit_exceeded(event, retry_after)
Notify ==
    /\ ~notice.called
    /\ notice' = [called      |-> TRUE,
                  event       |-> notice.event,
                  retry_after |-> notice.retry_after,
                  notices     |-> HandleRateLimitExceeded(
                                      notice.event, notice.retry_after, Resolution)]
    /\ UNCHANGED <<clock, rlvars, trvars, client, mw, passed, pbvars, svvars>>

NoticeNext == Notify

SpecNotice == NoticeInit /\ [][NoticeNext]_vars

\* the number of seconds a notice tells its reader to wait
ShownSeconds(n) ==
    IF n.answers = "InlineQuery"
    THEN n.switch_pm_text.retry_seconds
    ELSE n.text.retry_seconds

\* C14: the wait time shown is floor(retry_after) + 1: a whole number of
\* seconds strictly greater than retry_after and at most retry_after + 1.
C14_WaitTimeRoundsUp ==
    notice.called =>
        LET shown == ShownSeconds(notice.notices[1])
        IN  /\ shown \in Nat
            /\ shown * Resolution > notice.retry_after
            /\ shown * Resolution <= notice.retry_after + Resolution
            /\ \E f \in 0..LongestWindow :
                  /\ f * Resolution <= notice.retry_after
                  /\ notice.retry_after < (f + 1) * Resolution
                  /\ shown = f + 1

\* a retry_after with a fraction, shown as the next whole second
C14_Witness ==
    /\ notice.called
    /\ notice.retry_after % Resolution # 0
    /\ notice.retry_after > Resolution
    /\ ShownSeconds(notice.notices[1]) * Resolution
          < notice.retry_after + Resolution

\* ---------------------------------------------------- properties: middleware
\* the last update was checked by the limiter and rejected
Rejected == mw.called /\ mw.checked /\ ~mw.allowed

\* C12: a rejected update never reaches the handler and gets exactly one
\* notice; an accepted one reaches the handler exactly once and gets no notice.
C12_RejectShortCircuits ==
    (mw.called /\ mw.checked) =>
        IF mw.allowed
        THEN mw.handled = 1 /\ mw.notices = <<>>
        ELSE mw.handled = 0 /\ Len(mw.notices) = 1

\* a rejected update right after an accepted one of the same user
C12_Witness ==
    /\ Rejected
    /\ mw.handled = 0
    /\ Len(mw.notices) = 1
    /\ mw.now \in {mw.earlier[i] : i \in 1..Len(mw.earlier)}

\* C13: an update of a kind that is not message, inline query or callback
\* query, or without a user: the handler is invoked, the limiter is not
\* consulted and its state is what it was.
C13_FailOpen ==
    (/\ mw.called
     /\ \/ mw.event.kind \notin {"Message", "InlineQuery", "CallbackQuery"}
        \/ mw.event.from_user = None)
        => /\ mw.handled = 1
           /\ ~mw.checked
           /\ mw.notices = <<>>
           /\ requests = mw.before.requests
           /\ last_cleanup = mw.before.last_cleanup

\* a message without a user is let through while the commands of user 1 are
\* being rejected and a cleanup pass is due
C13_Witness ==
    /\ mw.called
    /\ mw.event = Event("Message", None)
    /\ mw.handled = 1
    /\ Len(Newer(Get(requests, <<1, "command">>), clock - COMMAND_WINDOW))
          >= COMMAND_LIMIT
    /\ clock - last_cleanup >= cleanup_interval

C16_PolicyTable ==
    (mw.called /\ mw.checked) =>
        LET kind == mw.event.kind
            lim  == CASE kind = "Message" -> 30
                      [] kind = "InlineQuery" -> 20
                      [] kind = "CallbackQuery" -> 5
            win  == CASE kind = "Message" -> 30
                      [] kind = "InlineQuery" -> 10
                      [] kind = "CallbackQuery" -> 10
        IN  mw.allowed <=> Len(Newer(mw.earlier, mw.now - win)) < lim

\* ------------------------------------------------------------------------
\* get_playback_data (the function under its decorator): two tasks on the
\* event loop, the currently-playing fetch awaited first, the recently-played
\* fetch awaited or cancelled, then the context fetch.
\* ------------------------------------------------------------------------
\* a Track | None, a Context | None and a Contextable | None are named by
\* strings; "None" is None
CurrentTrack == "T"
RecentTrack  == "R"
ContextTypes == {"album", "artist", "playlist", "collection", "show"}

\* CurrentlyPlayingResponse | None: None, a track with or without a context,
\* or an item that is not a track (an episode, an ad: .track is None)
NoResponse == [present |-> FALSE, track |-> "None", context |-> "None"]
CurrentlyPlayingResponses ==
    {NoResponse} \cup
    {[present |-> TRUE, track |-> CurrentTrack, context |-> c] :
        c \in ContextTypes \cup {"None"}} \cup
    {[present |-> TRUE, track |-> "None", context |-> c] :
        c \in {"show", "album"}}

\* RecentlyPlayedResponse | None for limit=1: None, no items, or one item
NoItems == [present |-> FALSE, items |-> <<>>]
RecentlyPlayedResponses ==
    {NoItems, [present |-> TRUE, items |-> <<>>]} \cup
    {[present |-> TRUE, items |-> <<[track |-> RecentTrack, context |-> c]>>] :
        c \in ContextTypes \cup {"None"}}

\* SpotifyClient._common_get for a client whose token expires at expires_at,
\* called at time now: the expiry check, then the request (a response that
\* parses, one that does not or a status other than 200, a 401 that says
\* "expired", an error of the transport)
CommonGet(responses, none, expires_at, now) ==
    IF TokenIsExpired(expires_at, now)
    THEN {Raises(TokenExpired)}
    ELSE {Returns(r) : r \in responses} \cup
         {Returns(none), Raises(TokenExpired), Raises(OtherError)}

\* the model a getter of the client validates its response into
Model(getter) ==
    CASE getter = "get_album"    -> "Album"
      [] getter = "get_artist"   -> "Artist"
      [] getter = "get_playlist" -> "Playlist"

\* get_album, get_artist, get_playlist: _common_get with cacheable=True, which
\* after the expiry check answers from the shared cache when the key is there
CachedGet(getter, expires_at, now) ==
    CommonGet({Model(getter)}, "None", expires_at, now)

\* Getter that takes a collection for a playlist
Getter_CollectionAsPlaylist(type) ==
    CASE type = "album"      -> "get_album"
      [] type = "artist"     -> "get_artist"
      [] type = "playlist"   -> "get_playlist"
      [] type = "collection" -> "get_playlist"
      [] OTHER               -> "None"

\* the match of get_context_details: the getter a context type is sent to,
\* "None" for `pass` and for the default case
Getter(type) ==
    CASE type = "album"      -> "get_album"
      [] type = "artist"     -> "get_artist"
      [] type = "playlist"   -> "get_playlist"
      [] type = "collection" -> "None"
      [] OTHER               -> "None"

\* SpotifyClient.get_context_details(context) for a context of the type
\* given: the getters it called and its outcome
GetContextDetails(type, expires_at, now) ==
    LET getter == Getter(type)
    IN  IF getter = "None"
        THEN {[fetches |-> << >>, outcome |-> Returns("None")]}
        ELSE {[fetches |-> <<getter>>, outcome |-> o] :
                 o \in CachedGet(getter, expires_at, now)}

\* an asyncio task: in flight, asked to cancel while in flight, finished with
\* an outcome, or cancelled
Task(state, outcome) == [state |-> state, outcome |-> outcome]

\* task.cancel(): a task that is done is left alone
Cancel(task) ==
    IF task.state = "running" THEN Task("cancelling", Pending) ELSE task

\* the done callback lambda t: t.exception(): Task.exception() returns the
\* exception or None of a finished task and raises CancelledError for a
\* cancelled one
DoneCallback(task) ==
    IF task.state = "cancelled"
    THEN Raises("CancelledError")
    ELSE Returns("None")

\* what the event loop does with a callback that raised: it calls its
\* exception handler ("Exception in callback ...")
Signals(callback) == IF callback.kind = "raise" THEN 1 ELSE 0

NoStatus == [track |-> "None", context |-> "None"]
Snapshot(track, context) == [track |-> track, context |-> context]

\* AfterCurrentlyPlaying that waits for the recently-played task whatever the
\* status is
AfterCurrentlyPlaying_AwaitsBoth(o) ==
    IF o.kind = "raise"
    THEN [pc |-> "done", result |-> o, status |-> NoStatus, cancel |-> FALSE]
    ELSE [pc |-> "await_rp", result |-> Pending, status |-> NoStatus,
          cancel |-> FALSE]

\* AfterCurrentlyPlaying that takes any item of a response for the track
AfterCurrentlyPlaying_AnyItem(o) ==
    IF o.kind = "raise"
    THEN [pc |-> "done", result |-> o, status |-> NoStatus, cancel |-> FALSE]
    ELSE IF ~o.value.present
         THEN [pc |-> "await_rp", result |-> Pending, status |-> NoStatus,
               cancel |-> FALSE]
         ELSE [pc |-> "context", result |-> Pending,
               status |-> Snapshot(o.value.track, o.value.context),
               cancel |-> TRUE]

\* get_playback_data, after `status = await currently_playing_task` ended
\* with o
AfterCurrentlyPlaying(o) ==
    IF o.kind = "raise"
    THEN [pc |-> "done", result |-> o, status |-> NoStatus, cancel |-> FALSE]
    ELSE IF ~o.value.present \/ o.value.track = "None"
         THEN [pc |-> "await_rp", result |-> Pending, status |-> NoStatus,
               cancel |-> FALSE]
         ELSE [pc |-> "context", result |-> Pending,
               status |-> Snapshot(o.value.track, o.value.context),
               cancel |-> TRUE]

\* AfterRecentlyPlayed that takes items[0] of a response without looking at
\* the list: IndexError on an empty one
AfterRecentlyPlayed_Unchecked(o) ==
    IF o.kind = "raise"
    THEN [pc |-> "done", result |-> o, status |-> NoStatus]
    ELSE IF ~o.value.present
         THEN [pc |-> "done", result |-> Returns(Snapshot("None", "None")),
               status |-> NoStatus]
         ELSE IF o.value.items = <<>>
              THEN [pc |-> "done", result |-> Raises("IndexError"),
                    status |-> NoStatus]
              ELSE [pc |-> "context", result |-> Pending,
                    status |-> o.value.items[1]]

\* get_playback_data, after `recently_played = await recently_played_task`
\* ended with o
AfterRecentlyPlayed(o) ==
    IF o.kind = "raise"
    THEN [pc |-> "done", result |-> o, status |-> NoStatus]
    ELSE IF ~o.value.present \/ o.value.items = <<>>
         THEN [pc |-> "done", result |-> Returns(Snapshot("None", "None")),
               status |-> NoStatus]
         ELSE [pc |-> "context", result |-> Pending,
               status |-> o.value.items[1]]

\* AfterContext that returns the context as the status carries it, unresolved
AfterContext_Unresolved(status, c) ==
    IF status.context = "None"
    THEN Returns(Snapshot(status.track, "None"))
    ELSE IF c.kind = "raise"
         THEN c
         ELSE Returns(Snapshot(status.track, status.context))

\* get_playback_data, from `context = None` to the return, c the outcome of
\* get_context_details when it is awaited
AfterContext(status, c) ==
    IF status.context = "None"
    THEN Returns(Snapshot(status.track, "None"))
    ELSE IF c.kind = "raise"
         THEN c
         ELSE Returns(Snapshot(status.track, c.value))

PBInit ==
    /\ clock = 0
    /\ LimiterInit
    /\ limit = 1
    /\ store = [u \in Users |-> NoUser]
    /\ w = Idle
    /\ ncalls = 0
    /\ MiddlewareInit

\* CreateTasks that leaves get_recently_played to be started later
CreateTasks_OneByOne ==
    [cp |-> Task("running", Pending), rp |-> Task("none", Pending)]

\* the two asyncio.create_task calls: both coroutines are scheduled on the
\* loop, neither is awaited
CreateTasks ==
    [cp |-> Task("running", Pending), rp |-> Task("running", Pending)]

\* no SpotifyClient
NoClient == [absent |-> TRUE]

\* GetUserSpotifyClient that, on the retry of the decorator, builds the client
\* from the row as it was when the decorated call began
GetUserSpotifyClient_Stale(rows, telegram_id) ==
    LET user == IF w.pc = "retry" THEN w.before[telegram_id]
                ELSE rows[telegram_id]
    IN  IF user = NoUser
        THEN NoClient
        ELSE [access_token  |-> user.spotify_access_token,
              refresh_token |-> user.spotify_refresh_token,
              expires_at    |-> user.spotify_expires_at]

\* get_user_spotify_client(telegram_id) with a session: None without a row,
\* else a client that holds the row's tokens and expiry
GetUserSpotifyClient(rows, telegram_id) ==
    LET user == rows[telegram_id]
    IN  IF user = NoUser
        THEN NoClient
        ELSE [access_token  |-> user.spotify_access_token,
              refresh_token |-> user.spotify_refresh_token,
              expires_at    |-> user.spotify_expires_at]

\* get_playback_data(user_id) up to its first await of a task: the client is
\* built from the user's row (get_session may give up instead), without a
\* client UserNotLoggedInError is raised, with one both tasks are created
Begin(u, session, rows, now) ==
    LET spotify_client == IF session = "session"
                          THEN GetUserSpotifyClient(rows, u)
                          ELSE NoClient
        tasks          == IF spotify_client # NoClient
                          THEN CreateTasks
                          ELSE [cp |-> Task("none", Pending),
                                rp |-> Task("none", Pending)]
    IN  [pc            |-> IF spotify_client # NoClient
                           THEN "await_cp" ELSE "done",
         user          |-> u,
         looked_up     |-> session = "session",
         client        |-> spotify_client,
         expires_at    |-> IF spotify_client # NoClient
                           THEN spotify_client.expires_at ELSE 0,
         started       |-> now,
         cp            |-> tasks.cp,
         rp            |-> tasks.rp,
         rp_awaited    |-> FALSE,
         rp_cancel     |-> FALSE,    \* recently_played_task.cancel() was called
         status        |-> NoStatus,
         context_calls |-> 0,
         fetches       |-> << >>,
         context       |-> Pending,
         signals       |-> 0,
         result        |-> IF session = OperationalError
                           THEN Raises(OperationalError)
                           ELSE IF spotify_client = NoClient
                                THEN Raises(UserNotLoggedIn)
                                ELSE Pending]

\* a caller awaits get_playback_data (the function under its decorator)
Resolve ==
    /\ pb.pc = "idle"
    /\ ncalls < MaxCalls
    /\ ncalls' = ncalls + 1
    /\ \E u \in Users, session \in {"session", OperationalError} :
          pb' = Begin(u, session, store, clock)
    /\ UNCHANGED <<clock, store, w, rlvars, mwvars, svvars>>

\* the currently-playing task finishes
CurrentlyPlayingDone ==
    /\ pb.pc # "idle"
    /\ pb.cp.state = "running"
    /\ \E o \in CommonGet(CurrentlyPlayingResponses, NoResponse,
                          pb.expires_at, pb.started) :
          pb' = [pb EXCEPT !.cp = Task("finished", o)]
    /\ UNCHANGED <<clock, store, w, ncalls, rlvars, mwvars, svvars>>

\* the recently-played task finishes and its done callback runs
RecentlyPlayedDone ==
    /\ pb.pc # "idle"
    /\ pb.rp.state = "running"
    /\ \E o \in CommonGet(RecentlyPlayedResponses, NoItems,
                          pb.expires_at, pb.started) :
          LET task == Task("finished", o)
          IN  pb' = [pb EXCEPT !.rp = task,
                               !.signals = @ + Signals(DoneCallback(task))]
    /\ UNCHANGED <<clock, store, w, ncalls, rlvars, mwvars, svvars>>

\* the recently-played task, cancelled in flight, ends cancelled and its done
\* callback runs
RecentlyPlayedCancelled ==
    /\ pb.pc # "idle"
    /\ pb.rp.state = "cancelling"
    /\ LET task == Task("cancelled", Pending)
       IN  pb' = [pb EXCEPT !.rp = task,
                            !.signals = @ + Signals(DoneCallback(task))]
    /\ UNCHANGED <<clock, store, w, ncalls, rlvars, mwvars, svvars>>

\* status = await currently_playing_task, and the branch taken on it
AwaitCurrentlyPlaying ==
    /\ pb.pc = "await_cp"
    /\ pb.cp.state = "finished"
    /\ LET n == AfterCurrentlyPlaying(pb.cp.outcome)
       IN  pb' = [pb EXCEPT !.pc = n.pc,
                            !.result = n.result,
                            !.status = n.status,
                            !.rp_cancel = n.cancel,
                            !.rp = IF n.cancel THEN Cancel(@) ELSE @]
    /\ UNCHANGED <<clock, store, w, ncalls, rlvars, mwvars, svvars>>

\* recently_played = await recently_played_task, and the branch taken on it
AwaitRecentlyPlayed ==
    /\ pb.pc = "await_rp"
    /\ pb.rp.state = "finished"
    /\ LET n == AfterRecentlyPlayed(pb.rp.outcome)
       IN  pb' = [pb EXCEPT !.pc = n.pc,
                            !.result = n.result,
                            !.status = n.status,
                            !.rp_awaited = TRUE]
    /\ UNCHANGED <<clock, store, w, ncalls, rlvars, mwvars, svvars>>

\* context = await spotify_client.get_context_details(status.context) if the
\* status has a context, and the return
ResolveContext ==
    /\ pb.pc = "context"
    /\ IF pb.status.context = "None"
       THEN pb' = [pb EXCEPT !.pc = "done",
                             !.result = AfterContext(pb.status, Pending)]
       ELSE \E c \in GetContextDetails(pb.status.context, pb.expires_at, clock) :
               pb' = [pb EXCEPT !.pc = "done",
                                !.context_calls = @ + 1,
                                !.fetches = c.fetches,
                                !.context = c.outcome,
                                !.result = AfterContext(pb.status, c.outcome)]
    /\ UNCHANGED <<clock, store, w, ncalls, rlvars, mwvars, svvars>>

\* the caller has the outcome and the loop has run the tasks to their end
Resolved ==
    /\ pb.pc = "done"
    /\ pb.cp.state \in {"none", "finished"}
    /\ pb.rp.state \in {"none", "finished", "cancelled"}
    /\ pb' = Idle
    /\ UNCHANGED <<clock, store, w, ncalls, rlvars, mwvars, svvars>>

PBNext ==
    \/ Login \/ Logout \/ Later
    \/ Resolve \/ CurrentlyPlayingDone \/ RecentlyPlayedDone
    \/ RecentlyPlayedCancelled \/ AwaitCurrentlyPlaying \/ AwaitRecentlyPlayed
    \/ ResolveContext \/ Resolved

SpecPB == PBInit /\ [][PBNext]_vars

\* ------------------------------------------------------------------------
\* get_playback_data and add_track_to_queue under with_token_refresh: the
\* decorator's two awaits of the function run the function's body.
\* ------------------------------------------------------------------------
PRInit == PBInit

\* a handler awaits get_playback_data(user_id)
CallPlayback ==
    \E u \in Users, form \in {"args", "kwargs"} :
        Invoke("get_playback_data", u, form)

\* a handler awaits add_track_to_queue(user_id, track_id)
CallQueue ==
    \E u \in Users, form \in {"args", "kwargs"} :
        Invoke("add_track_to_queue", u, form)

\* `await func(*args, **kwargs)` of the wrapper, first or second, enters the
\* body of get_playback_data
Attempt ==
    /\ w.pc \in {"call", "retry"}
    /\ w.func = "get_playback_data"
    /\ pb.pc = "idle"
    /\ \E session \in {"session", OperationalError} :
          LET b == Begin(w.user, session, store, clock)
          IN  /\ pb' = b
              /\ w' = [w EXCEPT !.attempts =
                          Append(@, [looked_up |-> b.looked_up,
                                     client    |-> b.client,
                                     cp        |-> b.cp.state,
                                     rp        |-> b.rp.state])]
    /\ UNCHANGED <<clock, store, ncalls, rlvars, mwvars, svvars>>

\* the body of get_playback_data has its outcome and the wrapper goes on with
\* it; a task still on the loop is left to the loop
Return ==
    /\ w.pc \in {"call", "retry"}
    /\ w.func = "get_playback_data"
    /\ pb.pc = "done"
    /\ LET n == IF w.pc = "call"
                THEN AfterFirstCall(pb.result, w.args, w.kwargs)
                ELSE AfterRetry(pb.result)
       IN  w' = [w EXCEPT !.calls = Append(@, pb.result),
                          !.pc = n.pc,
                          !.result = n.result]
    /\ pb' = Idle
    /\ UNCHANGED <<clock, store, ncalls, rlvars, mwvars, svvars>>

\* the wrapper's two awaits of add_track_to_queue
QueueFirstCall ==
    /\ w.pc = "call"
    /\ w.func = "add_track_to_queue"
    /\ FirstCall

QueueRetry ==
    /\ w.pc = "retry"
    /\ w.func = "add_track_to_queue"
    /\ Retry

PRNext ==
    \/ Login \/ Logout \/ Later
    \/ CallPlayback \/ CallQueue \/ Attempt \/ Return
    \/ QueueFirstCall \/ QueueRetry
    \/ CurrentlyPlayingDone \/ RecentlyPlayedDone \/ RecentlyPlayedCancelled
    \/ AwaitCurrentlyPlaying \/ AwaitRecentlyPlayed \/ ResolveContext
    \/ RefreshLoad \/ RefreshToken \/ Finish

SpecPR == PRInit /\ [][PRNext]_vars

\* ------------------------------------------- properties: get_playback_data
\* the resolver has its outcome
PBDone == pb.pc = "done"

\* the currently-playing fetch returned a response that holds a track
CurrentIsTrack ==
    /\ pb.pc # "idle"
    /\ pb.cp.state = "finished"
    /\ pb.cp.outcome.kind = "return"
    /\ pb.cp.outcome.value.present
    /\ pb.cp.outcome.value.track # "None"

\* the currently-playing fetch returned None or a response without a track
CurrentIsNothing ==
    /\ pb.pc # "idle"
    /\ pb.cp.state = "finished"
    /\ pb.cp.outcome.kind = "return"
    /\ ~pb.cp.outcome.value.present \/ pb.cp.outcome.value.track = "None"

\* the recently-played fetch returned None or a response without items
RecentIsNothing ==
    /\ pb.rp.state = "finished"
    /\ pb.rp.outcome.kind = "return"
    /\ ~pb.rp.outcome.value.present \/ pb.rp.outcome.value.items = <<>>

\* the recently-played fetch returned a response with one item
RecentIsItem ==
    /\ pb.rp.state = "finished"
    /\ pb.rp.outcome.kind = "return"
    /\ pb.rp.outcome.value.present
    /\ Len(pb.rp.outcome.value.items) = 1

\* C17: the currently-playing fetch returned a track: what get_playback_data
\* returns is that track, whatever the recently-played task did; that task is
\* never awaited, and an exception that leaves the resolver is the one of the
\* context fetch, never the task's.
C17_CurrentTrackWins ==
    (PBDone /\ CurrentIsTrack) =>
        /\ ~pb.rp_awaited
        /\ pb.result.kind = "return" =>
              pb.result.value.track = pb.cp.outcome.value.track
        /\ pb.result.kind = "raise" =>
              /\ pb.context_calls = 1
              /\ pb.result = pb.context
        /\ (pb.context_calls = 0 \/ pb.context.kind = "return") =>
              pb.result.kind = "return"

\* the recently-played task had failed with SpotifyTokenExpiredError before
\* the currently-playing track was used, and the track is returned
C17_Witness ==
    /\ PBDone
    /\ CurrentIsTrack
    /\ pb.rp = Task("finished", Raises(TokenExpired))
    /\ pb.result = Returns(Snapshot(CurrentTrack, "Album"))

\* C18 as stated: currently-playing returned nothing and recently-played one
\* item: the result is that item's track with no context.
C18_FallbackNoContext ==
    (PBDone /\ CurrentIsNothing /\ RecentIsItem) =>
        pb.result = Returns(Snapshot(pb.rp.outcome.value.items[1].track, "None"))

\* C18 amended: the result is that item's track, with no context when the item
\* carries none, and otherwise with what get_context_details returns for the
\* item's context (an exception of that fetch leaves the resolver).
C18_FallbackTrack ==
    (PBDone /\ CurrentIsNothing /\ RecentIsItem) =>
        LET item == pb.rp.outcome.value.items[1]
        IN  /\ pb.rp_awaited
            /\ item.context = "None" =>
                  /\ pb.result = Returns(Snapshot(item.track, "None"))
                  /\ pb.context_calls = 0
            /\ item.context # "None" =>
                  /\ pb.context_calls = 1
                  /\ pb.result = IF pb.context.kind = "return"
                                 THEN Returns(Snapshot(item.track, pb.context.value))
                                 ELSE pb.context

\* nothing is playing, the one recently played item has no context, and
\* (R, absent) is returned
C18_Witness ==
    /\ PBDone
    /\ pb.cp = Task("finished", Returns(NoResponse))
    /\ RecentIsItem
    /\ pb.rp.outcome.value.items[1].context = "None"
    /\ pb.result = Returns(Snapshot(RecentTrack, "None"))

\* C19: both fetches returned nothing (or recently-played an empty item list):
\* get_playback_data returns (None, None); nothing is raised, the decorator
\* starts no refresh and get_context_details is not called.
C19_NothingPlaying ==
    (PBDone /\ CurrentIsNothing /\ RecentIsNothing) =>
        /\ pb.result = Returns(Snapshot("None", "None"))
        /\ pb.context_calls = 0
        /\ AfterFirstCall(pb.result, <<pb.user>>, None).pc = "done"
        /\ AfterFirstCall(pb.result, <<pb.user>>, None).result = pb.result

\* currently-playing returned None and recently-played an empty item list
C19_Witness ==
    /\ PBDone
    /\ pb.cp = Task("finished", Returns(NoResponse))
    /\ pb.rp = Task("finished", Returns([present |-> TRUE, items |-> <<>>]))
    /\ pb.result = Returns(Snapshot("None", "None"))

\* C20: the currently-playing result is a track: however the recently-played
\* task ends (with a value, with a failure, cancelled in flight), no
\* unhandled-failure signal is produced.
C20_NoUnhandledFailure == CurrentIsTrack => pb.signals = 0

\* C21: both fetches are started before either is awaited, neither start
\* waits for the other fetch to finish, and the currently-playing result is
\* awaited first: while the resolver waits for the currently-playing task both
\* tasks are on the loop and the recently-played task has not been awaited,
\* and the recently-played task is awaited only after the currently-playing
\* task has finished.
C21_BothStartedCurrentFirst ==
    /\ pb.pc = "await_cp" =>
          /\ pb.cp.state \in {"running", "finished"}
          /\ pb.rp.state \in {"running", "finished"}
          /\ ~pb.rp_awaited
    /\ (pb.pc # "idle" /\ pb.rp_awaited) => pb.cp.state = "finished"

\* the recently-played fetch has finished while the currently-playing fetch
\* is still in flight and awaited
C21_Witness ==
    /\ pb.pc = "await_cp"
    /\ pb.cp.state = "running"
    /\ pb.rp.state = "finished"

\* get_context_details was awaited for the context of the status
ContextResolved ==
    /\ PBDone
    /\ pb.context_calls = 1

\* C24 as stated: the dispatch on the context type, and no case raises.
C24_DispatchNeverRaises ==
    ContextResolved =>
        /\ pb.context.kind = "return"
        /\ pb.fetches = CASE pb.status.context = "album"    -> <<"get_album">>
                          [] pb.status.context = "artist"   -> <<"get_artist">>
                          [] pb.status.context = "playlist" -> <<"get_playlist">>
                          [] OTHER                          -> << >>

\* C24: album, artist and playlist each make exactly one fetch of the matching
\* kind, and what the fetch returns is the context of the result; collection
\* and any other type make no fetch and give no context without raising; a
\* fetch that is made may raise, and then the resolver raises the same.
C24_ContextDispatch ==
    ContextResolved =>
        LET type == pb.status.context
        IN  /\ type = "album" =>
                  /\ pb.fetches = <<"get_album">>
                  /\ pb.context.kind = "return" =>
                        pb.context.value \in {"Album", "None"}
            /\ type = "artist" =>
                  /\ pb.fetches = <<"get_artist">>
                  /\ pb.context.kind = "return" =>
                        pb.context.value \in {"Artist", "None"}
            /\ type = "playlist" =>
                  /\ pb.fetches = <<"get_playlist">>
                  /\ pb.context.kind = "return" =>
                        pb.context.value \in {"Playlist", "None"}
            /\ type \notin {"album", "artist", "playlist"} =>
                  /\ pb.fetches = << >>
                  /\ pb.context = Returns("None")
            /\ pb.result = IF pb.context.kind = "return"
                           THEN Returns(Snapshot(pb.status.track,
                                                 pb.context.value))
                           ELSE pb.context

\* track T playing from an album, the album fetched: the result is (T, album)
C24_Witness ==
    /\ ContextResolved
    /\ CurrentIsTrack
    /\ pb.status.context = "album"
    /\ pb.fetches = <<"get_album">>
    /\ pb.result = Returns(Snapshot(CurrentTrack, "Album"))

\* C22: when the resolver's first run raised SpotifyTokenExpiredError and the
\* refresh succeeded, the retry runs the whole resolver again: its client is
\* built from the row as the refresh left it (the new access token, the new
\* expiry) and both fetches are started anew.
C22_RetryRerunsResolution ==
    (w.pc # "idle" /\ w.func = "get_playback_data") =>
        /\ (w.pc = "done" /\ w.calls[1] = Raises(TokenExpired)
                          /\ w.response.kind = "return") =>
              Len(w.attempts) = 2
        /\ Len(w.attempts) <= 2
        /\ Len(w.attempts) = 2 =>
              /\ w.calls[1] = Raises(TokenExpired)
              /\ w.response.kind = "return"
              /\ w.attempts[2].looked_up =>
                    /\ w.attempts[2].client # NoClient
                    /\ w.attempts[2].client.access_token = w.response.value
                    /\ w.attempts[2].client.expires_at = clock + expires_in
                    /\ w.attempts[2].cp = "running"
                    /\ w.attempts[2].rp = "running"
              /\ (pb.pc = "await_cp" /\ w.pc = "retry") =>
                    /\ pb.cp.state \in {"running", "finished"}
                    /\ pb.rp.state \in {"running", "finished"}

\* the first run raised SpotifyTokenExpiredError, the token was refreshed to
\* another one and the second run, with the new token, returned a track
C22_Witness ==
    /\ w.pc = "done"
    /\ w.func = "get_playback_data"
    /\ Len(w.attempts) = 2
    /\ w.attempts[2].looked_up
    /\ w.attempts[1].client.access_token # w.attempts[2].client.access_token
    /\ w.result.kind = "return"
    /\ w.result.value.track = CurrentTrack

\* C23: without a stored credential get_playback_data and add_track_to_queue
\* raise UserNotLoggedInError before any fetch is started, and the wrapper
\* lets it through: one await of the function, no refresh, no retry, the table
\* as it was.
C23_NotLoggedInFailsFast ==
    /\ (pb.pc # "idle" /\ pb.client = NoClient) =>
          /\ pb.cp.state = "none"
          /\ pb.rp.state = "none"
          /\ pb.context_calls = 0
    /\ (w.pc = "done" /\ w.func = "get_playback_data"
                      /\ w.attempts[1].looked_up
                      /\ w.attempts[1].client = NoClient) =>
          /\ w.result = Raises(UserNotLoggedIn)
          /\ Len(w.attempts) = 1
          /\ w.attempts[1].cp = "none"
          /\ w.attempts[1].rp = "none"
          /\ w.refreshes = << >>
          /\ w.fetched = 0
          /\ store = w.before
    /\ (w.pc = "done" /\ w.func = "add_track_to_queue"
                      /\ w.before[w.user] = NoUser
                      /\ w.calls[1] # Raises(OperationalError)) =>
          /\ w.result = Raises(UserNotLoggedIn)
          /\ Len(w.calls) = 1
          /\ w.refreshes = << >>
          /\ w.fetched = 0
          /\ store = w.before

\* get_playback_data for a user without a row has raised UserNotLoggedInError
C23_Witness ==
    /\ w.pc = "done"
    /\ w.func = "get_playback_data"
    /\ w.attempts[1].looked_up
    /\ w.attempts[1].client = NoClient
    /\ w.result = Raises(UserNotLoggedIn)

\* C26: after a refresh in which refresh_token returned, the user's row holds
\* the access token of the response and the expiry now + expires_in, which is
\* later than now; its refresh token and every other user's row are as they
\* were, and there was one commit.
C26_RefreshPersists ==
    (w.pc # "idle" /\ w.response.kind = "return") =>
        LET user_id == w.refreshes[Len(w.refreshes)]
        IN  /\ store[user_id].spotify_access_token = w.response.value
            /\ store[user_id].spotify_expires_at = clock + expires_in
            /\ store[user_id].spotify_expires_at > clock
            /\ store[user_id].spotify_refresh_token =
                  w.before[user_id].spotify_refresh_token
            /\ \A u \in Users \ {user_id} : store[u] = w.before[u]
            /\ w.commits = 1

\* a refresh that replaced an expired access token by another one while the
\* other user was logged in too
C26_Witness ==
    /\ w.pc = "done"
    /\ w.response.kind = "return"
    /\ LET user_id == w.refreshes[1]
       IN  /\ TokenIsExpired(w.before[user_id].spotify_expires_at, clock)
           /\ store[user_id].spotify_access_token #
                 w.before[user_id].spotify_access_token
           /\ \E u \in Users \ {user_id} : store[u] # NoUser

\* ------------------------------------------------------------------------
\* logout_user
\* ------------------------------------------------------------------------
\* LogoutUser that reports success and leaves the row
LogoutUser_KeepsRow(rows, telegram_id) ==
    IF rows[telegram_id] = NoUser
    THEN [result |-> Returns("False"), rows |-> rows]
    ELSE [result |-> Returns("True"), rows |-> rows]

\* logout_user(telegram_id) with a session: False without a row, else the row
\* is deleted, the deletion committed and True returned
LogoutUser(rows, telegram_id) ==
    IF rows[telegram_id] = NoUser
    THEN [result |-> Returns("False"), rows |-> rows]
    ELSE [result |-> Returns("True"),
          rows   |-> [rows EXCEPT ![telegram_id] = NoUser]]

LOInit == PBInit

\* a caller awaits logout_user(u); get_session yields a session or gives up
LogoutCall ==
    /\ ncalls < MaxCalls
    /\ ncalls' = ncalls + 1
    /\ \E u \in Users, session \in {"session", OperationalError} :
          LET out == IF session = "session"
                     THEN LogoutUser(store, u)
                     ELSE [result |-> Raises(OperationalError), rows |-> store]
          IN  /\ store' = out.rows
              /\ lg' = [called |-> TRUE,
                        user   |-> u,
                        before |-> store,
                        after  |-> out.rows,
                        result |-> out.result,
                        client |-> Pending,
                        prev   |-> IF lg.called
                                   THEN [called |-> TRUE,
                                         user   |-> lg.user,
                                         after  |-> lg.after,
                                         result |-> lg.result]
                                   ELSE NoCall]
    /\ UNCHANGED <<clock, w, rlvars, mwvars, pbvars, gs, cache, hd, rf>>

\* a caller awaits get_user_spotify_client for the user of the last logout,
\* nothing having written the table since
ClientAfterLogout ==
    /\ lg.called
    /\ lg.client = Pending
    /\ store = lg.after
    /\ lg' = [lg EXCEPT !.client =
                 Returns(GetUserSpotifyClient(store, lg.user))]
    /\ UNCHANGED <<clock, store, w, ncalls, rlvars, mwvars, pbvars, gs, cache,
                   hd, rf>>

LONext == Login \/ Later \/ LogoutCall \/ ClientAfterLogout

SpecLO == LOInit /\ [][LONext]_vars

\* C28: logout_user(u), when it returns, returns True and has removed u's row
\* (and no other) if there was one, and returns False with the table as it
\* was if there was none; called again with nothing written in between it
\* returns False; after a True, get_user_spotify_client(u) returns None.
C28_Logout ==
    (lg.called /\ lg.result.kind = "return") =>
        /\ lg.before[lg.user] # NoUser =>
              /\ lg.result = Returns("True")
              /\ lg.after[lg.user] = NoUser
              /\ \A u \in Users \ {lg.user} : lg.after[u] = lg.before[u]
        /\ lg.before[lg.user] = NoUser =>
              /\ lg.result = Returns("False")
              /\ lg.after = lg.before
        /\ (lg.prev.called /\ lg.prev.user = lg.user
                           /\ lg.prev.result = Returns("True")
                           /\ lg.prev.after = lg.before) =>
              lg.result = Returns("False")
        /\ (lg.result = Returns("True") /\ lg.client # Pending) =>
              lg.client = Returns(NoClient)

\* a second logout directly after a successful one, the other user logged in
C28_Witness ==
    /\ lg.called
    /\ lg.prev.called
    /\ lg.prev.user = lg.user
    /\ lg.prev.result = Returns("True")
    /\ lg.prev.after = lg.before
    /\ lg.result = Returns("False")
    /\ \E u \in Users : lg.after[u] # NoUser

\* ------------------------------------------------------------------------
\* get_session: an async generator under contextlib.asynccontextmanager.
\* __aenter__ runs it to its yield, __aexit__ resumes it after a body that
\* ended and throws the body's exception into it at the yield otherwise.
\* ------------------------------------------------------------------------
\* the power of two in delay = retry_delay * (2 ** (retries - 1))
RECURSIVE Pow2(_)
Pow2(n) == IF n = 0 THEN 1 ELSE 2 * Pow2(n - 1)

\* AfterOperationalError that gives up one retry early
AfterOperationalError_OneFewer(g, origin) ==
    LET retries == g.retries + 1
    IN  IF retries >= g.max_retries
        THEN [g EXCEPT !.retries = retries,
                       !.pc = "exited",
                       !.result = Raises(OperationalError),
                       !.origin = origin]
        ELSE [g EXCEPT !.retries = retries, !.pc = "sleep"]

\* except OperationalError as e: retries += 1, then the raise of e when the
\* retries are used up, else the way to the sleep; origin tells whose
\* exception e is, the creation's or the with block's
AfterOperationalError(g, origin) ==
    LET retries == g.retries + 1
    IN  IF retries > g.max_retries
        THEN [g EXCEPT !.retries = retries,
                       !.pc = "exited",
                       !.result = Raises(OperationalError),
                       !.origin = origin]
        ELSE [g EXCEPT !.retries = retries, !.pc = "sleep"]

\* session = AsyncSession(...) went well and the generator is at its yield.
\* The first yield hands the session to the with block. A yield reached
\* while __aexit__ throws the block's exception in makes __aexit__ raise
\* RuntimeError("generator didn't stop after athrow()"); whether the
\* generator is closed then, and its session with it, differs between
\* versions of contextlib (closes) and is left to the collector otherwise
AfterCreated(g) ==
    LET h == [g EXCEPT !.attempts = @ + 1, !.created = @ + 1, !.yields = @ + 1]
    IN  IF g.yields = 0
        THEN {[h EXCEPT !.pc = "body"]}
        ELSE {[h EXCEPT !.pc = "exited",
                        !.result = Raises("RuntimeError"),
                        !.origin = "contextlib",
                        !.closed = @ + n] : n \in {0, 1}}

DBInit == PBInit

\* async with get_session(max_retries) is entered (retry_delay is a factor
\* of every delay and left out)
Enter ==
    /\ gs.pc \in {"idle", "exited"}
    /\ ncalls < MaxCalls
    /\ ncalls' = ncalls + 1
    /\ \E max_retries \in 0..MaxRetries :
          gs' = [pc          |-> "create",
                 max_retries |-> max_retries,
                 retries     |-> 0,
                 attempts    |-> 0,      \* AsyncSession(...) calls
                 created     |-> 0,      \* sessions made
                 closed      |-> 0,      \* sessions closed
                 yields      |-> 0,
                 sleeps      |-> << >>,  \* the delays slept, in retry_delay
                 slept       |-> 0,      \* sleeps before the first yield
                 thrown      |-> "None", \* what the with block raised
                 result      |-> Pending,
                 origin      |-> "None"]
    /\ UNCHANGED <<clock, store, w, rlvars, mwvars, pbvars, lg, cache, hd, rf>>

\* while retries <= max_retries: try: session = AsyncSession(...)
Create ==
    /\ gs.pc = "create"
    /\ \/ \E g \in AfterCreated(gs) : gs' = g
       \/ gs' = AfterOperationalError([gs EXCEPT !.attempts = @ + 1],
                                      "create")
    /\ UNCHANGED <<clock, store, w, ncalls, rlvars, mwvars, pbvars, lg, cache,
                   hd, rf>>

\* await asyncio.sleep(delay), and back to the head of the loop
Sleep ==
    /\ gs.pc = "sleep"
    /\ gs' = [gs EXCEPT !.sleeps = Append(@, Pow2(gs.retries - 1)),
                        !.slept = IF gs.yields = 0 THEN @ + 1 ELSE @,
                        !.pc = "create"]
    /\ UNCHANGED <<clock, store, w, ncalls, rlvars, mwvars, pbvars, lg, cache,
                   hd, rf>>

\* the with block ends, normally or with an exception, and the generator
\* goes on from its yield: finally: await session.close(), then `return`,
\* the except clause, or the exception on its way out
Body ==
    /\ gs.pc = "body"
    /\ \E b \in {"None", OperationalError, OtherError} :
          LET g == [gs EXCEPT !.closed = @ + 1, !.thrown = b]
          IN  gs' = CASE b = "None" ->
                           [g EXCEPT !.pc = "exited",
                                     !.result = Returns("None")]
                      [] b = OperationalError ->
                           AfterOperationalError(g, "body")
                      [] OTHER ->
                           [g EXCEPT !.pc = "exited",
                                     !.result = Raises(b),
                                     !.origin = "body"]
    /\ UNCHANGED <<clock, store, w, ncalls, rlvars, mwvars, pbvars, lg, cache,
                   hd, rf>>

DBNext == Enter \/ Create \/ Sleep \/ Body

SpecDB == DBInit /\ [][DBNext]_vars

\* the event loop runs a coroutine that can go on, a sleep ends, and the
\* with block is taken to end
FairSpecDB ==
    SpecDB /\ WF_vars(Create) /\ WF_vars(Sleep) /\ WF_vars(Body)

\* C29: get_session ends; it tries to make a session at most max_retries + 1
\* times; the session it yields is the first one made, yielded with no try
\* after it; when every try fails it raises the OperationalError of the last
\* try after max_retries sleeps with the delays 1, 2, 4, ... times
\* retry_delay.
C29_CreationRetries ==
    /\ [](gs.pc # "idle" =>
            /\ gs.attempts <= gs.max_retries + 1
            /\ gs.pc = "body" =>
                  /\ gs.created = 1
                  /\ gs.yields = 1
                  /\ gs.attempts = gs.retries + 1
                  /\ Len(gs.sleeps) = gs.retries
            /\ (gs.pc = "exited" /\ gs.created = 0) =>
                  /\ gs.result = Raises(OperationalError)
                  /\ gs.origin = "create"
                  /\ gs.attempts = gs.max_retries + 1
                  /\ Len(gs.sleeps) = gs.max_retries
                  /\ \A i \in 1..Len(gs.sleeps) : gs.sleeps[i] = Pow2(i - 1))
    /\ (gs.pc \in {"create", "sleep", "body"}) ~> (gs.pc = "exited")

\* every try of a call with max_retries = 3 has failed
C29_Witness ==
    /\ gs.pc = "exited"
    /\ gs.max_retries = 3
    /\ gs.created = 0
    /\ gs.attempts = 4
    /\ gs.sleeps = <<1, 2, 4>>
    /\ gs.result = Raises(OperationalError)

\* C30: an OperationalError raised inside the with block is not retried: no
\* sleep follows it, no further session is made, the session is closed and
\* the caller gets that OperationalError.
C30_BodyErrorNotRetried ==
    (gs.pc # "idle" /\ gs.thrown = OperationalError) =>
        /\ gs.pc = "exited"
        /\ gs.attempts = gs.slept + 1
        /\ Len(gs.sleeps) = gs.slept
        /\ gs.created = 1
        /\ gs.closed = 1
        /\ gs.result = Raises(OperationalError)
        /\ gs.origin = "body"

\* ------------------------------------------------------------------------
\* The handlers of bot.py that call the service: inline_query, with its
\* TTLCache of snapshots, and queue_callback.
\* ------------------------------------------------------------------------
ttl == 3

\* TTLCache.__contains__: the key is stored and the timer is before the
\* entry's expiry
Contains(c, key, now) == key \in DOMAIN c /\ now < c[key].expires

\* TTLCache.__getitem__: KeyError for a key that is not stored or whose entry
\* has expired on the timer
GetItem(c, key, now) ==
    IF key \in DOMAIN c /\ now < c[key].expires
    THEN Returns(c[key].value)
    ELSE Raises("KeyError")

\* TTLCache.expire(time): the entries that have expired are dropped
Expire(c, now) == [k \in {x \in DOMAIN c : now < c[x].expires} |-> c[k]]

\* TTLCache.__setitem__: expire, then store the value to expire ttl later
\* (maxsize = 1000 is above the number of users here: nothing is evicted)
SetItem(c, key, value, now) ==
    LET e == Expire(c, now)
    IN  [k \in DOMAIN e \cup {key} |->
            IF k = key THEN [value |-> value, expires |-> now + ttl]
            ELSE e[k]]

\* what get_playback_data returns: (track, context)
PlaybackResults ==
    {Snapshot("None", "None"), Snapshot(CurrentTrack, "None"),
     Snapshot(CurrentTrack, "Album"), Snapshot(RecentTrack, "None")}

\* what leaves get_playback_data and add_track_to_queue under the decorator
\* as an exception: a missing login, the errors of the refresh, an expired
\* token on the retry, the session that could not be made, the transport
ServiceErrors ==
    {UserNotLoggedIn, InvalidRefreshToken, TokenRevoked, TokenExpired,
     TokenError, AuthError, OperationalError, OtherError}

PlaybackOutcomes ==
    {Returns(s) : s \in PlaybackResults} \cup {Raises(e) : e \in ServiceErrors}

QueueOutcomes ==
    {Returns("True")} \cup {Raises(e) : e \in ServiceErrors \cup {ApiError}}

\* messages of a SpotifyApiError, and get_queue_error_message
ApiMessages ==
    {"no active device", "restricted device", "premium required", "not found"}
GetQueueErrorMessage(message) ==
    CASE message = "no active device"  -> "No active device found"
      [] message = "restricted device" -> "Your device is not supported"
      [] message = "premium required"  -> "This requires Spotify Premium"
      [] OTHER                         -> "An error occurred"

\* no query.answer / callback.answer call
NoAnswer == [attempted |-> FALSE]

\* inline_query(query) for the user user_id: the cache is looked at with the
\* timer at now, read or written with the timer at now2; service is how
\* get_playback_data ends if it is awaited, sent how query.answer ends
InlineQuery(c, user_id, now, now2, service, sent) ==
    LET hit     == Contains(c, user_id, now)
        read    == GetItem(c, user_id, now2)
        login   == ~hit /\ service.kind = "raise"
                   /\ service.value \in {UserNotLoggedIn, InvalidRefreshToken,
                                         TokenRevoked}
        escapes == IF hit THEN read.kind = "raise"
                   ELSE service.kind = "raise" /\ ~login
        status  == IF hit THEN read.value
                   ELSE IF service.kind = "return" THEN service.value
                        ELSE Snapshot("None", "None")
        results == IF status.track = "None" THEN << >>
                   ELSE IF status.context = "None" THEN <<status.track>>
                        ELSE <<status.track, status.context>>
    IN  [hit     |-> hit,
         calls   |-> IF hit THEN 0 ELSE 1,
         service |-> IF hit THEN Pending ELSE service,
         cache   |-> IF ~hit /\ service.kind = "return"
                     THEN SetItem(c, user_id, service.value, now2)
                     ELSE c,
         answer  |-> IF escapes
                     THEN NoAnswer
                     ELSE [attempted           |-> TRUE,
                           results             |-> results,
                           switch_pm_text      |-> IF login
                                                   THEN "Login with Spotify"
                                                   ELSE "None",
                           switch_pm_parameter |-> IF login THEN "login"
                                                   ELSE "None"],
         raised  |-> IF escapes
                     THEN (IF hit THEN read.value ELSE service.value)
                     ELSE IF sent = "bad request" THEN "TelegramBadRequest"
                          ELSE "None"]

\* queue_callback(callback) with callback.data: service is how
\* add_track_to_queue ends, message the message of a SpotifyApiError (the
\* callback.answer calls are taken to go through)
QueueCallback(service, message) ==
    [hit     |-> FALSE,
     calls   |-> 1,
     service |-> service,
     answer  |->
        [attempted  |-> TRUE,
         show_alert |-> service.kind = "raise",
         text       |->
            CASE service.kind = "return" -> "Added to your queue!"
              [] service.value = UserNotLoggedIn ->
                    "Please log in with Spotify first!"
              [] service.value \in {InvalidRefreshToken, TokenRevoked} ->
                    "Your Spotify session expired. Please log in again."
              [] service.value = ApiError -> GetQueueErrorMessage(message)
              [] OTHER -> "An error occurred. Please try again."],
     raised  |-> "None"]

BotInit == PBInit

\* a second passes
Second ==
    /\ clock < MaxSeconds
    /\ clock' = clock + 1
    /\ UNCHANGED <<store, w, ncalls, rlvars, mwvars, pbvars, gs, lg, cache, hd, rf>>

\* an inline query of user u is handled; skew is the time that passes
\* between the look at the cache and the read or write of it
Inline(skew) ==
    /\ ncalls < MaxCalls
    /\ ncalls' = ncalls + 1
    /\ clock + skew <= MaxSeconds
    /\ clock' = clock + skew
    /\ \E u \in Users, service \in PlaybackOutcomes,
          sent \in {"ok", "query is too old", "bad request"} :
          LET r == InlineQuery(cache, u, clock, clock + skew, service, sent)
          IN  /\ cache' = r.cache
              /\ hd' = [called  |-> TRUE,
                        handler |-> "inline_query",
                        user    |-> u,
                        now     |-> clock,
                        before  |-> cache,
                        hit     |-> r.hit,
                        calls   |-> r.calls,
                        service |-> r.service,
                        answer  |-> r.answer,
                        raised  |-> r.raised]
    /\ UNCHANGED <<store, w, rlvars, mwvars, pbvars, gs, lg, rf>>

InlineNow  == Inline(0)
InlineSlow == Inline(1)

\* a "queue;<track id>" callback query of user u is handled
Queue ==
    /\ ncalls < MaxCalls
    /\ ncalls' = ncalls + 1
    /\ \E u \in Users, service \in QueueOutcomes, message \in ApiMessages :
          LET r == QueueCallback(service, message)
          IN  hd' = [called  |-> TRUE,
                     handler |-> "queue_callback",
                     user    |-> u,
                     now     |-> clock,
                     before  |-> cache,
                     hit     |-> r.hit,
                     calls   |-> r.calls,
                     service |-> r.service,
                     answer  |-> r.answer,
                     raised  |-> r.raised]
    /\ UNCHANGED <<clock, store, w, rlvars, mwvars, pbvars, gs, lg, cache, rf>>

BotNext == Second \/ InlineNow \/ InlineSlow \/ Queue

SpecBot == BotInit /\ [][BotNext]_vars

\* C25: every failure of the service call is translated by the handler: the
\* exception does not leave the handler and the user is answered, with the
\* log-in prompt for a missing login and for an invalid or revoked refresh
\* token, in queue_callback with the category of a SpotifyApiError, and with
\* a generic notice otherwise.
C25_FailuresTranslated ==
    (hd.called /\ hd.service.kind = "raise") =>
        /\ hd.raised # hd.service.value
        /\ hd.answer.attempted
        /\ (hd.handler = "inline_query"
              /\ hd.service.value \in {UserNotLoggedIn, InvalidRefreshToken,
                                       TokenRevoked}) =>
              /\ hd.answer.switch_pm_text = "Login with Spotify"
              /\ hd.answer.switch_pm_parameter = "login"
        /\ hd.handler = "queue_callback" => hd.answer.show_alert

\* C27: an inline query of a user whose snapshot was stored less than 3 s
\* ago is answered from the cache without a call of the resolver; the cache
\* is written only with what a resolver call returned, and a resolver call
\* that raised leaves the cache as it was.
C27_InlineCache ==
    (hd.called /\ hd.handler = "inline_query") =>
        /\ (hd.user \in DOMAIN hd.before
              /\ hd.now - (hd.before[hd.user].expires - 3) < 3) =>
              /\ hd.calls = 0
              /\ hd.raised \in {"None", "TelegramBadRequest"}
              /\ hd.answer.attempted
              /\ hd.answer.results =
                    LET v == hd.before[hd.user].value
                    IN  IF v.track = "None" THEN << >>
                        ELSE IF v.context = "None" THEN <<v.track>>
                             ELSE <<v.track, v.context>>
        /\ cache # hd.before =>
              /\ hd.service.kind = "return"
              /\ hd.user \in DOMAIN cache
              /\ cache[hd.user].value = hd.service.value
        /\ hd.service.kind = "raise" => cache = hd.before

\* ------------------------------------------- properties: limiter, continued
\* C31: a bulk cleanup pass (a step that moves _last_cleanup) is part of a
\* check and comes 60 s or more after the pass before it, or after the
\* creation of the limiter; after it no key holds an empty list, and every
\* timestamp held is newer than the time of the pass less 30 s.
C31_CleanupPass ==
    [][last_cleanup' # last_cleanup =>
          /\ nchecks' = nchecks + 1
          /\ rl'.cleaned
          /\ last_cleanup' = clock'
          /\ last_cleanup' - last_cleanup >= 60
          /\ \A k \in DOMAIN requests' :
                /\ requests'[k] # << >>
                /\ \A i \in 1..Len(requests'[k]) :
                      requests'[k][i] > last_cleanup' - 30]_vars

\* a pass has removed the key of another user and kept a timestamp of the
\* key checked
C31_Witness ==
    /\ rl.called
    /\ rl.cleaned
    /\ last_cleanup = rl.returned_at
    /\ \E k \in DOMAIN rl.before : k \notin DOMAIN requests
    /\ Len(requests[rl.key]) >= 2

\* C36: no key holds more timestamps than the limit, and of the checks
\* accepted for a key no more than the limit lie in one interval of the
\* length of the key's window.
C36_BoundedPerWindow ==
    \A k \in Keys :
        /\ Len(Get(requests, k)) <= limit
        /\ LET acc == AcceptedTimes(log[k])
           IN  \A i \in 1..Len(acc) :
                  Len(SelectSeq(acc, LAMBDA ts :
                         ts > acc[i] - WindowOf(k[2]) /\ ts <= acc[i])) <= limit

\* C37: after a check of a key at t was rejected with retry_after r, a check
\* of the key before t + r is rejected, and the first check of the key at
\* t + r or later is accepted, whatever was checked in between.
C37_RetryAfterExact ==
    rl.called =>
        \A i \in 1..Len(rl.history) :
            LET e == rl.history[i]
            IN  ~e.allowed =>
                  /\ rl.now < e.now + e.retry_after => ~rl.allowed
                  /\ (/\ rl.now >= e.now + e.retry_after
                      /\ \A j \in (i + 1)..Len(rl.history) :
                            rl.history[j].now < e.now + e.retry_after)
                        => rl.allowed

\* ------------------------------ properties: get_playback_data, continued
\* C32: whenever get_playback_data ends after it started its tasks, by a
\* return or by an exception, the recently-played task has been awaited or
\* cancelled.
C32_RecentAwaitedOrCancelled ==
    (PBDone /\ pb.cp.state # "none") => (pb.rp_awaited \/ pb.rp_cancel)

\* the currently-playing fetch returned an item that is not a track
CurrentIsNotTrack ==
    /\ pb.pc # "idle"
    /\ pb.cp.state = "finished"
    /\ pb.cp.outcome.kind = "return"
    /\ pb.cp.outcome.value.present
    /\ pb.cp.outcome.value.track = "None"

\* C33: the currently-playing result is present but not a track: the
\* recently-played task is not cancelled but awaited; what is returned is
\* (None, None) when that task gave nothing or no item, and else the track of
\* its item with the context resolved from the item's context, never from
\* the context of the item that is playing.
C33_NonTrackFallsBack ==
    (PBDone /\ CurrentIsNotTrack) =>
        /\ ~pb.rp_cancel
        /\ pb.rp_awaited
        /\ pb.rp.state = "finished"
        /\ pb.rp.outcome.kind = "raise" => pb.result = pb.rp.outcome
        /\ RecentIsNothing =>
              /\ pb.result = Returns(Snapshot("None", "None"))
              /\ pb.context_calls = 0
        /\ RecentIsItem =>
              LET item == pb.rp.outcome.value.items[1]
              IN  /\ pb.status = item
                  /\ pb.result.kind = "return" =>
                        pb.result.value.track = item.track
                  /\ item.context = "None" =>
                        pb.result = Returns(Snapshot(item.track, "None"))
                  /\ pb.context_calls = 1 => item.context # "None"

\* an item that is not a track is playing from an album, the track played
\* before it has no context, and that track is returned without a context
C33_Witness ==
    /\ PBDone
    /\ CurrentIsNotTrack
    /\ pb.cp.outcome.value.context = "album"
    /\ RecentIsItem
    /\ pb.rp.outcome.value.items[1].context = "None"
    /\ pb.result = Returns(Snapshot(RecentTrack, "None"))

\* ------------------------------------------------------------------------
\* A logout that comes in while a decorated call is between the failure of
\* its first await and the refresh (the handlers run as tasks of one loop
\* and every await is a point where another handler may run).
\* ------------------------------------------------------------------------
\* logout_user(u) of the user of the running call, before
\* refresh_user_spotify_token has loaded the row
LogoutMeanwhile ==
    /\ w.pc = "refresh"
    /\ store[w.user] # NoUser
    /\ store' = LogoutUser(store, w.user).rows
    /\ UNCHANGED <<clock, w, ncalls, rlvars, mwvars, pbvars, svvars>>

TCNext == PRNext \/ LogoutMeanwhile

SpecTC == PRInit /\ [][TCNext]_vars

\* the refresh of the running call found no row and returned
RefreshFoundNoRow ==
    /\ w.pc = "done"
    /\ Len(w.refreshes) = 1
    /\ w.loaded = NoUser
    /\ w.refreshed.kind = "return"

\* C34: the row is deleted after the first await raised
\* SpotifyTokenExpiredError and before the refresh loads it: the refresh
\* returns without a call of refresh_token and without a commit, the wrapper
\* awaits the function a second time, that await raises UserNotLoggedInError
\* (OperationalError if it gets no session), and there is still no row.
C34_LogoutBeforeRefresh ==
    RefreshFoundNoRow =>
        /\ w.calls[1] = Raises(TokenExpired)
        /\ w.before[w.user] # NoUser
        /\ w.refreshed = Returns("None")
        /\ w.response = Pending
        /\ w.fetched = 0
        /\ w.commits = 0
        /\ Len(w.calls) = 2
        /\ w.calls[2] \in {Raises(UserNotLoggedIn), Raises(OperationalError)}
        /\ (w.func = "get_playback_data" /\ w.attempts[2].looked_up) =>
              /\ w.calls[2] = Raises(UserNotLoggedIn)
              /\ w.attempts[2].cp = "none"
        /\ w.result = w.calls[2]
        /\ store[w.user] = NoUser

\* get_playback_data of a user who logged out while the call was on its way
\* to the refresh: the retry raised UserNotLoggedInError
C34_Witness ==
    /\ RefreshFoundNoRow
    /\ w.func = "get_playback_data"
    /\ w.before[w.user] # NoUser
    /\ store[w.user] = NoUser
    /\ w.result = Raises(UserNotLoggedIn)

\* refresh_token of the running call raised an exception that
\* refresh_user_spotify_token does not handle
RefreshFailedOtherwise ==
    /\ w.pc = "done"
    /\ w.fetched = 1
    /\ w.response.kind = "raise"
    /\ w.response.value \notin {InvalidRefreshToken, TokenRevoked}

\* C35: when refresh_token raises an exception other than
\* SpotifyInvalidRefreshTokenError and SpotifyTokenRevokedError, that
\* exception is the outcome of the decorated call, the function has been
\* awaited once only, nothing was committed and every row is as it was when
\* the call began.
C35_OtherRefreshErrors ==
    RefreshFailedOtherwise =>
        /\ w.result = w.response
        /\ w.refreshed = w.response
        /\ Len(w.calls) = 1
        /\ w.commits = 0
        /\ store = w.before
        /\ store[w.user] = w.loaded

\* a call whose refresh ended with SpotifyTokenError: the row still holds
\* both tokens
C35_Witness ==
    /\ RefreshFailedOtherwise
    /\ w.response = Raises(TokenError)
    /\ w.result = Raises(TokenError)
    /\ store[w.user] # NoUser
    /\ store[w.user].spotify_refresh_token = "rt"
    /\ store[w.user].spotify_access_token # ""

\* a row whose tokens refresh_user_spotify_token has cleared (a login writes
\* the access token of the token response, which is never empty here)
IsCleared(row) == row # NoUser /\ row.spotify_access_token = ""

\* a decorated call that began when the row of its user was a cleared one
CallOnClearedRow == w.pc # "idle" /\ IsCleared(w.before[w.user])

\* C39: a cleared row has an empty refresh token and an expiry that is not
\* after the present; the first await of a decorated call for such a user
\* does not raise UserNotLoggedInError: the client is built from the row and
\* the expiry check raises SpotifyTokenExpiredError (no outcome of a request
\* occurs; OperationalError if there is no session), the tasks of
\* get_playback_data were created on that client, and the refresh the wrapper
\* then starts passes the empty refresh token of the row to refresh_token.
C39_ClearedRowExpired ==
    /\ \A u \in Users :
          IsCleared(store[u]) =>
              /\ store[u].spotify_refresh_token = ""
              /\ store[u].spotify_expires_at <= clock
    /\ CallOnClearedRow =>
          /\ Len(w.calls) >= 1 =>
                /\ w.calls[1] \in {Raises(TokenExpired), Raises(OperationalError)}
                /\ w.calls[1] = Raises(TokenExpired) =>
                      /\ w.pc # "call"
                      /\ w.pc # "refresh" => w.refreshes = <<w.user>>
          /\ (w.func = "get_playback_data" /\ Len(w.attempts) >= 1
                  /\ w.attempts[1].looked_up) =>
                /\ w.attempts[1].client # NoClient
                /\ w.attempts[1].client.access_token = ""
                /\ w.attempts[1].cp = "running"
                /\ Len(w.calls) >= 1 => w.calls[1] = Raises(TokenExpired)
          /\ w.loaded # NoUser => w.loaded.spotify_refresh_token = ""
          /\ w.fetched >= 1 => w.loaded # NoUser

\* get_playback_data for a user whose row was cleared: the expiry check
\* raised, the refresh passed the empty refresh token and refresh_token
\* raised SpotifyInvalidRefreshTokenError
C39_Witness ==
    /\ CallOnClearedRow
    /\ w.pc = "done"
    /\ w.func = "get_playback_data"
    /\ w.attempts[1].looked_up
    /\ w.calls = <<Raises(TokenExpired)>>
    /\ w.fetched = 1
    /\ w.loaded.spotify_refresh_token = ""
    /\ w.response = Raises(InvalidRefreshToken)

\* ------------------------------------------------------------------------
\* The handlers of bot.py with the user table: /logout and inline queries of
\* users who log in and out.
\* ------------------------------------------------------------------------
\* how get_playback_data under its decorator may end for the row of the user:
\* UserNotLoggedInError without a row (OperationalError without a session),
\* any other outcome with one
PlaybackOf(row) ==
    IF row = NoUser
    THEN {Raises(UserNotLoggedIn), Raises(OperationalError)}
    ELSE PlaybackOutcomes \ {Raises(UserNotLoggedIn)}

BLInit == PBInit

\* logout(message): no from_user, return; else success = await
\* logout_user(user.id) and one of the two answers. _inline_query_cache is
\* not touched.
LogoutCommand ==
    /\ \E u \in Users \cup {None}, session \in {"session", OperationalError} :
          IF u = None
          THEN UNCHANGED <<store, lg, rf>>
          ELSE LET out == IF session = "session"
                          THEN LogoutUser(store, u)
                          ELSE [result |-> Raises(OperationalError),
                                rows   |-> store]
               IN  /\ store' = out.rows
                   /\ lg' = [called |-> TRUE,
                             user   |-> u,
                             result |-> out.result,
                             answer |->
                                CASE out.result = Returns("True") ->
                                        "Successfully logged out"
                                  [] out.result = Returns("False") ->
                                        "You are not currently logged in"
                                  [] OTHER -> "None"]
    /\ UNCHANGED <<clock, w, ncalls, rlvars, mwvars, pbvars, gs, cache, hd, rf>>

\* an inline query of user u is handled, the timer standing still meanwhile;
\* get_playback_data, if awaited, ends as the row of u allows (query.answer
\* is taken to go through)
InlineOf ==
    /\ ncalls < MaxCalls
    /\ ncalls' = ncalls + 1
    /\ \E u \in Users :
       \E service \in PlaybackOf(store[u]) :
          LET r == InlineQuery(cache, u, clock, clock, service, "ok")
          IN  /\ cache' = r.cache
              /\ hd' = [called     |-> TRUE,
                        handler    |-> "inline_query",
                        user       |-> u,
                        \* the last logout_user was of u, returned True, and
                        \* u has not logged in since
                        logged_out |-> (lg.called /\ lg.user = u
                                        /\ lg.result = Returns("True")
                                        /\ store[u] = NoUser),
                        hit        |-> r.hit,
                        answer     |-> r.answer]
    /\ UNCHANGED <<clock, store, w, rlvars, mwvars, pbvars, gs, lg, rf>>

BLNext == Second \/ Login \/ LogoutCommand \/ InlineOf

SpecBL == BLInit /\ [][BLNext]_vars

\* C40: an inline query of a user whose logout_user returned True and who has
\* not logged in since, if it is answered, is answered with no results (no
\* track and no context of a track).
C40_NoTrackAfterLogout ==
    (hd.called /\ hd.logged_out /\ hd.answer.attempted) =>
        hd.answer.results = << >>

\* ------------------------------------------------------------------------
\* refresh_user_spotify_token called by handlers that run side by side: each
\* call has its own session, loads the row, awaits refresh_token and commits.
\* ------------------------------------------------------------------------
TokenColumns == {"spotify_access_token", "spotify_refresh_token"}
Columns == TokenColumns \cup {"spotify_expires_at"}

\* Flush that writes only the columns the refresh assigned a new value to
Flush_AssignedColumns(rows, telegram_id, loaded, changed) ==
    IF rows[telegram_id] = NoUser
    THEN rows
    ELSE [rows EXCEPT ![telegram_id] =
             [c \in Columns |-> IF changed[c] # loaded[c]
                                THEN changed[c]
                                ELSE rows[telegram_id][c]]]

\* session.commit() of a session that loaded the row as `loaded` and holds it
\* as `changed`: the UPDATE sets the columns whose value differs from the
\* loaded one. encrypt_tokens (before_update) replaces both tokens by a fresh
\* ciphertext of their plaintext, so both token columns are always among
\* them and are written as the session holds them; spotify_expires_at is
\* written when it was given another value. The UPDATE matches nothing when
\* the row has been deleted.
Flush(rows, telegram_id, loaded, changed) ==
    IF rows[telegram_id] = NoUser
    THEN rows
    ELSE [rows EXCEPT ![telegram_id] =
             [c \in Columns |-> IF c \in TokenColumns \/ changed[c] # loaded[c]
                                THEN changed[c]
                                ELSE rows[telegram_id][c]]]

\* what refresh_token may do with the refresh token it is given: the token
\* endpoint issues no access token for an empty one
RefreshTokenOutcomesFor(refresh_token) ==
    IF refresh_token = ""
    THEN {o \in RefreshTokenOutcomes : o.kind = "raise"}
    ELSE RefreshTokenOutcomes

RFInit == PBInit

\* refresher p: get_session(), user = await session.get(User, telegram_id);
\* without a session the call ends with OperationalError, without a row it
\* returns
RFLoad(p) ==
    /\ rf[p].pc # "loaded"
    /\ ncalls < MaxCalls
    /\ ncalls' = ncalls + 1
    /\ \E u \in Users, session \in {"session", OperationalError} :
          rf' = [rf EXCEPT ![p] =
                    IF session = "session" /\ store[u] # NoUser
                    THEN [pc          |-> "loaded",
                          telegram_id |-> u,
                          user        |-> store[u]]
                    ELSE Idle]
    /\ UNCHANGED <<clock, store, w, rlvars, mwvars, pbvars, gs, lg, cache, hd>>

\* refresher p: refresh_token(user.spotify_refresh_token) ends, the row is
\* changed and committed as RefreshToken does, and the call is over
RFCommit(p) ==
    /\ rf[p].pc = "loaded"
    /\ \E r \in RefreshTokenOutcomesFor(rf[p].user.spotify_refresh_token) :
          LET user == rf[p].user
              u    == rf[p].telegram_id
          IN  /\ store' =
                    IF r.kind = "return"
                    THEN Flush(store, u, user,
                               RefreshedRow(user, r.value, clock))
                    ELSE IF Clears(r)
                         THEN Flush(store, u, user, ClearedRow(user, clock))
                         ELSE store
              /\ rf' = [rf EXCEPT ![p] =
                           [pc          |-> "done",
                            telegram_id |-> u,
                            user        |-> user,
                            response    |-> r,
                            \* another refresher held the row of u then
                            overlapped  |->
                               \E q \in Refreshers \ {p} :
                                  /\ rf[q].pc = "loaded"
                                  /\ rf[q].telegram_id = u]]
    /\ UNCHANGED <<clock, w, ncalls, rlvars, mwvars, pbvars, gs, lg, cache, hd>>

RFNext ==
    \/ Login \/ Logout \/ Later
    \/ \E p \in Refreshers : RFLoad(p)
    \/ \E p \in Refreshers : RFCommit(p)

SpecRF == RFInit /\ [][RFNext]_vars

\* C38: in every row of the user table the access token is empty if and only
\* if the refresh token is, whatever the order in which refreshes of the same
\* user that run side by side load and commit.
C38_TokensClearedTogether ==
    \A u \in Users :
        store[u] # NoUser =>
            (store[u].spotify_access_token = ""
                <=> store[u].spotify_refresh_token = "")

\* refresher 1 cleared the row of a user while refresher 2 held it, and
\* refresher 2 then committed the access token it was given: the row has
\* that access token and the refresh token refresher 2 had loaded
C38_Witness ==
    /\ rf[1].pc = "done" /\ rf[2].pc = "done"
    /\ rf[1].telegram_id = rf[2].telegram_id
    /\ rf[1].overlapped
    /\ rf[1].response = Raises(TokenRevoked)
    /\ rf[2].response.kind = "return"
    /\ store[rf[2].telegram_id] # NoUser
    /\ store[rf[2].telegram_id].spotify_access_token = rf[2].response.value
    /\ store[rf[2].telegram_id].spotify_refresh_token = "rt"
====
